---- MODULE Spec2Model ----
(***************************************************************************)
(* State-machine model of the NEAR custody contracts of ciphra.pay:        *)
(*   EscrowContract  (contract/near-contract/escrow-contract/src/lib.rs)   *)
(*   SwapContract    (contract/near-contract/swap-contract/src/lib.rs)     *)
(*   P2PTransferContract (contract/near-contract/p2p-transfer/src/lib.rs)  *)
(* Every public method is one action.  A method whose assert!/expect       *)
(* panics is rolled back by the host, so a panicking call is no step: the  *)
(* conjunction of a method's assertions is its guard (the *_ok operators). *)
(* Promise::new(a).transfer(n) appends to the module's transfer log,       *)
(* paired with the log line the same call emits.                           *)
(***************************************************************************)
EXTENDS Integers, Sequences, FiniteSets, TLC

VARIABLES
    escrows,              \* EscrowContract.escrows: escrow_id -> Escrow
    proof_verifications,  \* EscrowContract.proof_verifications: key -> bool
    owner,                \* EscrowContract.owner
    trusted_verifiers,    \* EscrowContract.trusted_verifiers: Vec<AccountId>
    now,                  \* env::block_timestamp() seen by the escrow module
    transfers,            \* Promises issued by the escrow module, oldest first
    deposited,            \* sum of env::attached_deposit() of accepted create_escrow calls
    swaps,                \* SwapContract.swaps: swap_id -> AtomicSwap
    swaps_by_initiator,   \* SwapContract.swaps_by_initiator: account -> Vec<swap_id>
    swaps_by_participant, \* SwapContract.swaps_by_participant: account -> Vec<swap_id>
    oracle_verifications, \* SwapContract.oracle_verifications: swap_id -> PoseidonVerification
    swap_owner,           \* SwapContract.owner
    oracle_account,       \* SwapContract.oracle_account
    fee_recipient,        \* SwapContract.fee_recipient
    fee_percentage,       \* SwapContract.fee_percentage (basis points)
    swap_now,             \* env::block_timestamp() seen by the swap module
    swap_transfers,       \* Promises issued by the swap module, oldest first
    p2p_transfers,        \* P2PTransferContract.transfers: transfer_id -> Transfer
    user_transfers,       \* P2PTransferContract.user_transfers: account -> Vec<transfer_id>
    shielded_pool,        \* P2PTransferContract.shielded_pool: note_id -> ShieldedNote
    p2p_owner,            \* P2PTransferContract.owner
    p2p_fee_percentage,   \* P2PTransferContract.fee_percentage (basis points)
    p2p_fee_recipient,    \* P2PTransferContract.fee_recipient
    p2p_now,              \* env::block_timestamp() seen by the P2P module
    p2p_out,              \* Promises issued by the P2P module, oldest first
    p2p_received          \* sum of env::attached_deposit() of accepted payable calls

escrow_vars == <<escrows, proof_verifications, owner, trusted_verifiers, now,
                 transfers, deposited>>

swap_vars == <<swaps, swaps_by_initiator, swaps_by_participant,
               oracle_verifications, swap_owner, oracle_account, fee_recipient,
               fee_percentage, swap_now, swap_transfers>>

p2p_vars == <<p2p_transfers, user_transfers, shielded_pool, p2p_owner,
              p2p_fee_percentage, p2p_fee_recipient, p2p_now, p2p_out,
              p2p_received>>

vars == <<escrow_vars, swap_vars, p2p_vars>>

----------------------------------------------------------------------------
(* Bounds of the model *)

MaxTime == 2          \* the block timestamp ranges over 0..MaxTime
MaxTransfers == 2     \* length of the transfer log explored
MaxP2PTime == 1       \* the P2P module's block timestamp ranges over 0..MaxP2PTime

(* Inputs the calls are drawn from *)

Accounts == {"owner", "alice", "bob", "carol"}
EscrowIds == {"e1"}
Depositors == {"alice"}
Beneficiaries == {"bob"}
Arbiters == {"carol"}
Verifiers == {"owner", "carol"}
Deposits == {0, 7, 10}
ChainIds == {"eth"}
TxHashes == {"0xabc", "0xdef"}
BlockNumbers == {1}
ProofDatas == {"proof"}
Metadatas == {"{}"}

(* Constants of SwapContract::new *)

default_fee_percentage == 30
min_time_lock == 3600
max_time_lock == 86400
max_fee_percentage == 1000
basis_points == 10000

(* Constants of P2PTransferContract: new, set_fee_percentage, the fee divisor *)
(* and the length asked of commitments and nullifiers                        *)

p2p_default_fee_percentage == 10
p2p_max_fee_percentage == 500
p2p_basis_points == 10000
hex_len == 64

(* Inputs of the swap calls *)

SwapAccounts == {"owner", "alice", "bob", "oracle"}
SwapIds == {"s1"}
Initiators == {"alice"}
Participants == {"bob"}
SwapDeposits == {0, 33, 10000}
Secrets == {"hello", "world"}
HashLocks == {"2cf24dba5fb0a30e26e83b2ac5b9e29e1b161e5c1fa7425e73043362938b9824",
              "2cf24dba5fb0a30e26e83b2ac5b9e29e1"}
HashAlgorithms == {"SHA256", "Poseidon"}
Durations == {3599, 3600, 86400, 86401}
TargetChains == {"starknet"}
TargetAddresses == {"0x1"}
CounterpartyIds == {<<>>}
PoseidonHashes == {"0xp"}
FeeArgs == {0, 1000, 1001}
FeeRecipients == {"owner", "alice"}
OracleAccounts == {"oracle", "bob"}

(* Inputs of the P2P calls *)

P2PAccounts == {"owner", "alice", "bob"}
TransferIds == {"t1", "t2"}
NoteIds == {"n1", "n2"}
P2PSenders == {"alice"}
P2PRecipients == {"bob"}
Spenders == {"bob"}
P2PDeposits == {0, 5, 1999}
Commitments == {"c0c0c0c0c0c0c0c0c0c0c0c0c0c0c0c0c0c0c0c0c0c0c0c0c0c0c0c0c0c0c0c0",
                "c0c0"}
Nullifiers == {"0a0a0a0a0a0a0a0a0a0a0a0a0a0a0a0a0a0a0a0a0a0a0a0a0a0a0a0a0a0a0a0a",
               "0b0b0b0b0b0b0b0b0b0b0b0b0b0b0b0b0b0b0b0b0b0b0b0b0b0b0b0b0b0b0b0b",
               "0a0a"}
NewCommitments == {"d1d1d1d1d1d1d1d1d1d1d1d1d1d1d1d1d1d1d1d1d1d1d1d1d1d1d1d1d1d1d1d1",
                   "d1d1"}
RecipientCommitments == {"e2e2e2e2e2e2e2e2e2e2e2e2e2e2e2e2e2e2e2e2e2e2e2e2e2e2e2e2e2e2e2e2",
                         "e2e2"}
Proofs == {"", "zk"}
Memos == {"memo"}
P2PFeeArgs == {0, 500, 501}
P2PFeeRecipients == {"owner", "alice"}

(* A u64 nanosecond timestamp n is held as [s |-> n div 10^9, ns |-> n mod 10^9]. *)
(* The instants the swap module's clock passes through:                           *)
SwapInstants ==
    {[s |-> 0, ns |-> 0], [s |-> 3599, ns |-> 999999999], [s |-> 3600, ns |-> 0],
     [s |-> 86400, ns |-> 0]}

----------------------------------------------------------------------------
(* Option<T> *)

None == <<>>
Some(x) == <<x>>
is_some(o) == o # <<>>
is_none(o) == o = <<>>
unwrap(o) == o[1]

(* u128 <-> decimal String, as a sequence of digits *)

RECURSIVE to_string(_)
to_string(n) ==
    IF n < 10 THEN <<n>> ELSE Append(to_string(n \div 10), n % 10)

RECURSIVE parse_u128(_)
parse_u128(s) ==
    IF Len(s) = 1 THEN s[1]
    ELSE 10 * parse_u128(SubSeq(s, 1, Len(s) - 1)) + s[Len(s)]

(* UnorderedMap *)

map_get(m, k) == IF k \in DOMAIN m THEN Some(m[k]) ELSE None
map_insert(m, k, v) == [x \in DOMAIN m \cup {k} |-> IF x = k THEN v ELSE m[x]]

(* Vec<AccountId> *)

contains(v, a) == \E i \in 1..Len(v) : v[i] = a
retain_ne(v, a) == SelectSeq(v, LAMBDA x : x # a)

(* format!("{}:{}", chain_id, tx_hash) *)
proof_key(chain_id, tx_hash) == chain_id \o ":" \o tx_hash

----------------------------------------------------------------------------
(* EscrowContract::new(owner) *)

EscrowInit ==
    /\ escrows = <<>>
    /\ proof_verifications = <<>>
    /\ owner = "owner"
    /\ trusted_verifiers = <<"owner">>
    /\ now = 0
    /\ transfers = <<>>
    /\ deposited = 0

(* SwapContract::new(owner, oracle_account) *)
SwapInit ==
    /\ swaps = <<>>
    /\ swaps_by_initiator = <<>>
    /\ swaps_by_participant = <<>>
    /\ oracle_verifications = <<>>
    /\ swap_owner = "owner"
    /\ oracle_account = "oracle"
    /\ fee_recipient = "owner"
    /\ fee_percentage = default_fee_percentage
    /\ swap_now = [s |-> 0, ns |-> 0]
    /\ swap_transfers = <<>>

(* P2PTransferContract::new(owner) *)
P2PInit ==
    /\ p2p_transfers = <<>>
    /\ user_transfers = <<>>
    /\ shielded_pool = <<>>
    /\ p2p_owner = "owner"
    /\ p2p_fee_percentage = p2p_default_fee_percentage
    /\ p2p_fee_recipient = "owner"
    /\ p2p_now = 0
    /\ p2p_out = <<>>
    /\ p2p_received = 0

Init == EscrowInit /\ SwapInit /\ P2PInit

----------------------------------------------------------------------------
(* EscrowContract *)

(* str::parse::<AccountId>(): the stored String of an account, validated *)
parse_account(s) == IF s \in Accounts THEN Some(s) ELSE None

(* the Escrow built by create_escrow *)
new_escrow(caller, escrow_id, beneficiary, release_time, arbiter, metadata, attached) ==
    [ escrow_id         |-> escrow_id,
      depositor         |-> caller,
      beneficiary       |-> beneficiary,
      amount            |-> to_string(attached),
      release_time      |-> release_time,
      status            |-> "Active",
      cross_chain_proof |-> None,
      arbiter           |-> arbiter,
      created_at        |-> now,
      metadata          |-> metadata ]

(* create_escrow with the release-time assertion off by one *)
create_escrow_ok_at_now(escrow_id, release_time, attached) ==
    /\ attached > 0
    /\ is_none(map_get(escrows, escrow_id))
    /\ release_time >= now

(* the three assertions of create_escrow *)
create_escrow_ok(escrow_id, release_time, attached) ==
    /\ attached > 0
    /\ is_none(map_get(escrows, escrow_id))
    /\ release_time > now

create_escrow(caller, escrow_id, beneficiary, release_time, arbiter, metadata, attached) ==
    /\ create_escrow_ok(escrow_id, release_time, attached)
    /\ escrows' = map_insert(escrows, escrow_id,
                      new_escrow(caller, escrow_id, beneficiary, release_time,
                                 arbiter, metadata, attached))
    /\ deposited' = deposited + attached
    /\ UNCHANGED <<proof_verifications, owner, trusted_verifiers, now, transfers>>
    /\ UNCHANGED <<swap_vars, p2p_vars>>

(* the CrossChainProof built by submit_cross_chain_proof *)
new_proof(chain_id, tx_hash, block_number, proof_data) ==
    [ chain_id     |-> chain_id,
      tx_hash      |-> tx_hash,
      block_number |-> block_number,
      proof_data   |-> proof_data,
      verified     |-> FALSE,
      verified_at  |-> None ]

submit_cross_chain_proof_asserts(escrow) ==
    escrow.status = "Active"

submit_cross_chain_proof_ok(escrow_id) ==
    /\ is_some(map_get(escrows, escrow_id))
    /\ submit_cross_chain_proof_asserts(escrows[escrow_id])

submit_cross_chain_proof(caller, escrow_id, chain_id, tx_hash, block_number, proof_data) ==
    /\ submit_cross_chain_proof_ok(escrow_id)
    /\ escrows' = map_insert(escrows, escrow_id,
                      [escrows[escrow_id] EXCEPT !.cross_chain_proof =
                          Some(new_proof(chain_id, tx_hash, block_number, proof_data))])
    /\ UNCHANGED <<proof_verifications, owner, trusted_verifiers, now, transfers,
                   deposited>>
    /\ UNCHANGED <<swap_vars, p2p_vars>>

(* verify_proof authorizing the listed verifiers only *)
verify_proof_authorized_listed_only(verifier) ==
    contains(trusted_verifiers, verifier)

(* the authorization assertion of verify_proof *)
verify_proof_authorized(verifier) ==
    contains(trusted_verifiers, verifier) \/ verifier = owner

verify_proof_ok(verifier, escrow_id) ==
    /\ verify_proof_authorized(verifier)
    /\ is_some(map_get(escrows, escrow_id))
    /\ is_some(escrows[escrow_id].cross_chain_proof)

(* the proof slot written by verify_proof at block time t *)
verified_proof(proof, t) ==
    [proof EXCEPT !.verified = TRUE, !.verified_at = Some(t)]

verify_proof(verifier, escrow_id) ==
    /\ verify_proof_ok(verifier, escrow_id)
    /\ LET escrow == escrows[escrow_id]
           proof  == verified_proof(unwrap(escrow.cross_chain_proof), now)
       IN  /\ escrows' = map_insert(escrows, escrow_id,
                             [escrow EXCEPT !.cross_chain_proof = Some(proof)])
           /\ proof_verifications' =
                  map_insert(proof_verifications,
                             proof_key(proof.chain_id, proof.tx_hash), TRUE)
    /\ UNCHANGED <<owner, trusted_verifiers, now, transfers, deposited>>
    /\ UNCHANGED <<swap_vars, p2p_vars>>

is_arbiter(escrow, caller) ==
    /\ is_some(escrow.arbiter)
    /\ unwrap(parse_account(unwrap(escrow.arbiter))) = caller

proof_verified(escrow) ==
    /\ is_some(escrow.cross_chain_proof)
    /\ unwrap(escrow.cross_chain_proof).verified

(* release_funds with the arbiter inside the time/proof condition *)
release_funds_asserts_arbiter_gated(escrow, caller, t) ==
    LET is_beneficiary == caller = unwrap(parse_account(escrow.beneficiary))
        time_passed    == t >= escrow.release_time
    IN  /\ (is_beneficiary \/ is_arbiter(escrow, caller))
           /\ (time_passed \/ proof_verified(escrow))
        /\ escrow.status = "Active"

(* the two assertions of release_funds on a record, at block time t *)
release_funds_asserts(escrow, caller, t) ==
    LET is_beneficiary == caller = unwrap(parse_account(escrow.beneficiary))
        time_passed    == t >= escrow.release_time
    IN  /\ \/ is_beneficiary /\ (time_passed \/ proof_verified(escrow))
           \/ is_arbiter(escrow, caller)
        /\ escrow.status = "Active"

release_funds_ok(caller, escrow_id) ==
    /\ is_some(map_get(escrows, escrow_id))
    /\ release_funds_asserts(escrows[escrow_id], caller, now)

(* Promise::new(receiver).transfer(amount), with the call that issued it *)
Transfer(op, caller, escrow_id, receiver, amount) ==
    [op |-> op, caller |-> caller, id |-> escrow_id, receiver |-> receiver,
     amount |-> amount]

release_funds(caller, escrow_id) ==
    /\ Len(transfers) < MaxTransfers
    /\ release_funds_ok(caller, escrow_id)
    /\ LET escrow == [escrows[escrow_id] EXCEPT !.status = "Completed"]
       IN  /\ escrows' = map_insert(escrows, escrow_id, escrow)
           /\ transfers' = Append(transfers,
                  Transfer("release_funds", caller, escrow_id,
                           unwrap(parse_account(escrow.beneficiary)),
                           parse_u128(escrow.amount)))
    /\ UNCHANGED <<proof_verifications, owner, trusted_verifiers, now, deposited>>
    /\ UNCHANGED <<swap_vars, p2p_vars>>

(* refund_escrow with || in place of && in the second assertion *)
refund_escrow_asserts_either(escrow, caller, t) ==
    LET is_depositor      == caller = unwrap(parse_account(escrow.depositor))
        time_passed       == t >= escrow.release_time
        no_verified_proof == ~proof_verified(escrow)
    IN  /\ is_depositor \/ is_arbiter(escrow, caller)
        /\ time_passed \/ no_verified_proof

(* the two assertions of refund_escrow on a record, at block time t *)
refund_escrow_asserts(escrow, caller, t) ==
    LET is_depositor      == caller = unwrap(parse_account(escrow.depositor))
        time_passed       == t >= escrow.release_time
        no_verified_proof == ~proof_verified(escrow)
    IN  /\ is_depositor \/ is_arbiter(escrow, caller)
        /\ time_passed /\ no_verified_proof

refund_escrow_ok(caller, escrow_id) ==
    /\ is_some(map_get(escrows, escrow_id))
    /\ refund_escrow_asserts(escrows[escrow_id], caller, now)

refund_escrow(caller, escrow_id) ==
    /\ Len(transfers) < MaxTransfers
    /\ refund_escrow_ok(caller, escrow_id)
    /\ LET escrow == [escrows[escrow_id] EXCEPT !.status = "Refunded"]
       IN  /\ escrows' = map_insert(escrows, escrow_id, escrow)
           /\ transfers' = Append(transfers,
                  Transfer("refund_escrow", caller, escrow_id,
                           unwrap(parse_account(escrow.depositor)),
                           parse_u128(escrow.amount)))
    /\ UNCHANGED <<proof_verifications, owner, trusted_verifiers, now, deposited>>
    /\ UNCHANGED <<swap_vars, p2p_vars>>

(* the assertion of raise_dispute on a record *)
raise_dispute_asserts(escrow, caller) ==
    \/ caller = unwrap(parse_account(escrow.depositor))
    \/ caller = unwrap(parse_account(escrow.beneficiary))

raise_dispute_ok(caller, escrow_id) ==
    /\ is_some(map_get(escrows, escrow_id))
    /\ raise_dispute_asserts(escrows[escrow_id], caller)

raise_dispute(caller, escrow_id) ==
    /\ raise_dispute_ok(caller, escrow_id)
    /\ escrows' = map_insert(escrows, escrow_id,
                      [escrows[escrow_id] EXCEPT !.status = "Disputed"])
    /\ UNCHANGED <<proof_verifications, owner, trusted_verifiers, now, transfers,
                   deposited>>
    /\ UNCHANGED <<swap_vars, p2p_vars>>

get_escrow(escrow_id) == map_get(escrows, escrow_id)

is_proof_verified(chain_id, tx_hash) ==
    LET v == map_get(proof_verifications, proof_key(chain_id, tx_hash))
    IN  IF is_some(v) THEN unwrap(v) ELSE FALSE

add_trusted_verifier(caller, verifier) ==
    /\ caller = owner
    /\ trusted_verifiers' = IF ~contains(trusted_verifiers, verifier)
                            THEN Append(trusted_verifiers, verifier)
                            ELSE trusted_verifiers
    /\ UNCHANGED <<escrows, proof_verifications, owner, now, transfers, deposited>>
    /\ UNCHANGED <<swap_vars, p2p_vars>>

remove_trusted_verifier(caller, verifier) ==
    /\ caller = owner
    /\ trusted_verifiers' = retain_ne(trusted_verifiers, verifier)
    /\ UNCHANGED <<escrows, proof_verifications, owner, now, transfers, deposited>>
    /\ UNCHANGED <<swap_vars, p2p_vars>>

(* the host advances the block timestamp *)
Tick ==
    /\ now < MaxTime
    /\ now' = now + 1
    /\ UNCHANGED <<escrows, proof_verifications, owner, trusted_verifiers,
                   transfers, deposited>>
    /\ UNCHANGED <<swap_vars, p2p_vars>>

ArbiterArgs == {None} \cup {Some(a) : a \in Arbiters}

EscrowNext ==
    \/ \E c \in Depositors, id \in EscrowIds, b \in Beneficiaries,
          rt \in 0..MaxTime, a \in ArbiterArgs, md \in Metadatas, v \in Deposits :
          create_escrow(c, id, b, rt, a, md, v)
    \/ \E c \in Accounts, id \in EscrowIds, ch \in ChainIds, tx \in TxHashes,
          bn \in BlockNumbers, pd \in ProofDatas :
          submit_cross_chain_proof(c, id, ch, tx, bn, pd)
    \/ \E c \in Accounts, id \in EscrowIds : verify_proof(c, id)
    \/ \E c \in Accounts, id \in EscrowIds : release_funds(c, id)
    \/ \E c \in Accounts, id \in EscrowIds : refund_escrow(c, id)
    \/ \E c \in Accounts, id \in EscrowIds : raise_dispute(c, id)
    \/ \E c \in Accounts, v \in Verifiers : add_trusted_verifier(c, v)
    \/ \E c \in Accounts, v \in Verifiers : remove_trusted_verifier(c, v)
    \/ Tick

EscrowSpec == Init /\ [][EscrowNext]_vars

----------------------------------------------------------------------------
(* SwapContract *)

(* u64 comparison and addition on [s, ns] timestamps *)
ts_lt(a, b) == a.s < b.s \/ (a.s = b.s /\ a.ns < b.ns)
ts_ge(a, b) == ~ts_lt(a, b)

(* env::block_timestamp() + (time_lock_duration * 1_000_000_000): the       *)
(* product is time_lock_duration whole seconds and no nanoseconds.         *)
time_lock_at(t, time_lock_duration) ==
    [s |-> t.s + time_lock_duration, ns |-> t.ns]

(* hex::encode(env::sha256(secret.as_bytes())) *)
hash_secret(secret) ==
    CASE secret = "hello" ->
           "2cf24dba5fb0a30e26e83b2ac5b9e29e1b161e5c1fa7425e73043362938b9824"
      [] secret = "world" ->
           "486ea46224d1bb4fb680f34f7c9ad96a8f24ec88be73ea8e5a6c65260e9cb8a7"

(* the AtomicSwap built by initiate_swap *)
new_swap(caller, swap_id, participant, hash_lock, hash_algorithm, time_lock_duration, target_chain, target_address, counterparty_swap_id, attached) ==
    [ swap_id              |-> swap_id,
      initiator            |-> caller,
      participant          |-> participant,
      amount               |-> to_string(attached),
      hash_lock            |-> hash_lock,
      hash_algorithm       |-> hash_algorithm,
      time_lock            |-> time_lock_at(swap_now, time_lock_duration),
      status               |-> "Initiated",
      secret               |-> None,
      target_chain         |-> target_chain,
      target_address       |-> target_address,
      counterparty_swap_id |-> counterparty_swap_id,
      created_at           |-> swap_now ]

(* an initiation that takes a hash lock of any length *)
initiate_swap_ok_any_hash_lock(swap_id, hash_lock, time_lock_duration, attached) ==
    /\ attached > 0
    /\ is_none(map_get(swaps, swap_id))
    /\ time_lock_duration >= min_time_lock /\ time_lock_duration <= max_time_lock

(* the four assertions of initiate_swap *)
initiate_swap_ok(swap_id, hash_lock, time_lock_duration, attached) ==
    /\ attached > 0
    /\ is_none(map_get(swaps, swap_id))
    /\ time_lock_duration >= min_time_lock /\ time_lock_duration <= max_time_lock
    /\ Len(hash_lock) = 64

(* add_swap_to_initiator / add_swap_to_participant *)
add_swap_to(index, account, swap_id) ==
    map_insert(index, account,
               Append(IF account \in DOMAIN index THEN index[account] ELSE <<>>,
                      swap_id))

initiate_swap(caller, swap_id, participant, hash_lock, hash_algorithm, time_lock_duration, target_chain, target_address, counterparty_swap_id, attached) ==
    /\ initiate_swap_ok(swap_id, hash_lock, time_lock_duration, attached)
    /\ swaps' = map_insert(swaps, swap_id,
                    new_swap(caller, swap_id, participant, hash_lock, hash_algorithm,
                             time_lock_duration, target_chain, target_address,
                             counterparty_swap_id, attached))
    /\ swaps_by_initiator' = add_swap_to(swaps_by_initiator, caller, swap_id)
    /\ swaps_by_participant' = add_swap_to(swaps_by_participant, participant, swap_id)
    /\ UNCHANGED <<oracle_verifications, swap_owner, oracle_account, fee_recipient,
                   fee_percentage, swap_now, swap_transfers>>
    /\ UNCHANGED <<escrow_vars, p2p_vars>>

(* a lock either party of the swap may take *)
lock_swap_asserts_either_party(swap, caller, t) ==
    /\ caller \in {swap.participant, swap.initiator}
    /\ swap.status = "Initiated"
    /\ ts_lt(t, swap.time_lock)

(* the three assertions of lock_swap on a record, at block time t *)
lock_swap_asserts(swap, caller, t) ==
    /\ caller = swap.participant
    /\ swap.status = "Initiated"
    /\ ts_lt(t, swap.time_lock)

lock_swap_ok(caller, swap_id) ==
    /\ is_some(map_get(swaps, swap_id))
    /\ lock_swap_asserts(swaps[swap_id], caller, swap_now)

lock_swap(caller, swap_id) ==
    /\ lock_swap_ok(caller, swap_id)
    /\ swaps' = map_insert(swaps, swap_id,
                    [swaps[swap_id] EXCEPT !.status = "Locked"])
    /\ UNCHANGED <<swaps_by_initiator, swaps_by_participant, oracle_verifications,
                   swap_owner, oracle_account, fee_recipient, fee_percentage,
                   swap_now, swap_transfers>>
    /\ UNCHANGED <<escrow_vars, p2p_vars>>

(* a completion that skips the local SHA256 comparison *)
complete_swap_asserts_any_secret(swap, verification, secret, t) ==
    /\ swap.hash_algorithm = "Poseidon" =>
           is_some(verification) /\ unwrap(verification).verified
    /\ swap.status = "Locked"
    /\ ts_lt(t, swap.time_lock)

(* a completion that asks only for an oracle entry, verified or not *)
complete_swap_asserts_entry_only(swap, verification, secret, t) ==
    /\ IF swap.hash_algorithm = "Poseidon"
       THEN is_some(verification)
       ELSE hash_secret(secret) = swap.hash_lock
    /\ swap.status = "Locked"
    /\ ts_lt(t, swap.time_lock)

(* a completion still accepted at the instant of the time lock *)
complete_swap_asserts_at_expiry(swap, verification, secret, t) ==
    /\ IF swap.hash_algorithm = "Poseidon"
       THEN is_some(verification) /\ unwrap(verification).verified
       ELSE hash_secret(secret) = swap.hash_lock
    /\ swap.status = "Locked"
    /\ ~ts_lt(swap.time_lock, t)

(* the assertions of complete_swap_with_oracle_verification on a record,   *)
(* given the oracle entry of the swap id, at block time t                  *)
complete_swap_asserts(swap, verification, secret, t) ==
    /\ IF swap.hash_algorithm = "Poseidon"
       THEN is_some(verification) /\ unwrap(verification).verified
       ELSE hash_secret(secret) = swap.hash_lock
    /\ swap.status = "Locked"
    /\ ts_lt(t, swap.time_lock)

complete_swap_ok(swap_id, secret) ==
    /\ is_some(map_get(swaps, swap_id))
    /\ complete_swap_asserts(swaps[swap_id], map_get(oracle_verifications, swap_id),
                             secret, swap_now)

(* a fee rounded up instead of down *)
fee_of_rounded_up(amount_yocto, percentage) ==
    (amount_yocto * percentage + basis_points - 1) \div basis_points

(* (amount_yocto * self.fee_percentage as u128) / 10000 *)
fee_of(amount_yocto, percentage) == (amount_yocto * percentage) \div basis_points

(* the Promises of a completion: the fee if positive, then the payout *)
settlement(caller, swap_id, swap, recipient, percentage) ==
    LET amount_yocto == parse_u128(swap.amount)
        fee_yocto    == fee_of(amount_yocto, percentage)
        payout_yocto == amount_yocto - fee_yocto
        op           == "complete_swap_with_oracle_verification"
    IN  (IF fee_yocto > 0
         THEN <<Transfer(op, caller, swap_id, recipient, fee_yocto)>>
         ELSE <<>>)
        \o <<Transfer(op, caller, swap_id,
                      unwrap(parse_account(swap.participant)), payout_yocto)>>

(* a completion that marks the swap Completed and forgets the secret *)
completed_swap_without_secret(swap, secret) ==
    [swap EXCEPT !.status = "Completed"]

(* a completion that rewrites the amount to what was paid out after the fee *)
completed_swap_net_amount(swap, secret) ==
    [swap EXCEPT !.secret = Some(secret), !.status = "Completed",
                 !.amount = to_string(parse_u128(swap.amount)
                               - fee_of(parse_u128(swap.amount), fee_percentage))]

(* swap.secret = Some(secret.clone()); swap.status = SwapStatus::Completed *)
completed_swap(swap, secret) ==
    [swap EXCEPT !.secret = Some(secret), !.status = "Completed"]

complete_swap_with_oracle_verification(caller, swap_id, secret) ==
    /\ complete_swap_ok(swap_id, secret)
    /\ LET swap == completed_swap(swaps[swap_id], secret)
       IN  /\ swaps' = map_insert(swaps, swap_id, swap)
           /\ swap_transfers' = swap_transfers \o
                  settlement(caller, swap_id, swap, fee_recipient, fee_percentage)
    /\ UNCHANGED <<swaps_by_initiator, swaps_by_participant, oracle_verifications,
                   swap_owner, oracle_account, fee_recipient, fee_percentage,
                   swap_now>>
    /\ UNCHANGED <<escrow_vars, p2p_vars>>

(* an oracle check against the account given at construction *)
submit_oracle_verification_ok_first_oracle(caller, swap_id) ==
    /\ caller = "oracle"
    /\ is_some(map_get(swaps, swap_id))
    /\ swaps[swap_id].hash_algorithm = "Poseidon"

(* the assertions of submit_oracle_verification *)
submit_oracle_verification_ok(caller, swap_id) ==
    /\ caller = oracle_account
    /\ is_some(map_get(swaps, swap_id))
    /\ swaps[swap_id].hash_algorithm = "Poseidon"

submit_oracle_verification(caller, swap_id, poseidon_hash, secret_matches) ==
    /\ submit_oracle_verification_ok(caller, swap_id)
    /\ oracle_verifications' =
           map_insert(oracle_verifications, swap_id,
                      [ swap_id       |-> swap_id,
                        poseidon_hash |-> poseidon_hash,
                        verified      |-> secret_matches,
                        verified_at   |-> Some(swap_now) ])
    /\ UNCHANGED <<swaps, swaps_by_initiator, swaps_by_participant, swap_owner,
                   oracle_account, fee_recipient, fee_percentage, swap_now,
                   swap_transfers>>
    /\ UNCHANGED <<escrow_vars, p2p_vars>>

(* refund_swap whose status assertion forgets Completed *)
refund_swap_asserts_completed_too(swap, caller, t) ==
    /\ caller = unwrap(parse_account(swap.initiator))
    /\ swap.status \notin {"Refunded"}
    /\ ts_ge(t, swap.time_lock)

(* a refund any account may call *)
refund_swap_asserts_any_caller(swap, caller, t) ==
    /\ swap.status \notin {"Completed", "Refunded"}
    /\ ts_ge(t, swap.time_lock)

(* a refund that is given only to a swap never locked *)
refund_swap_asserts_initiated_only(swap, caller, t) ==
    /\ caller = unwrap(parse_account(swap.initiator))
    /\ swap.status = "Initiated"
    /\ ts_ge(t, swap.time_lock)

(* the three assertions of refund_swap on a record, at block time t *)
refund_swap_asserts(swap, caller, t) ==
    /\ caller = unwrap(parse_account(swap.initiator))
    /\ swap.status \notin {"Completed", "Refunded"}
    /\ ts_ge(t, swap.time_lock)

refund_swap_ok(caller, swap_id) ==
    /\ is_some(map_get(swaps, swap_id))
    /\ refund_swap_asserts(swaps[swap_id], caller, swap_now)

refund_swap(caller, swap_id) ==
    /\ refund_swap_ok(caller, swap_id)
    /\ LET swap == [swaps[swap_id] EXCEPT !.status = "Refunded"]
       IN  /\ swaps' = map_insert(swaps, swap_id, swap)
           /\ swap_transfers' = Append(swap_transfers,
                  Transfer("refund_swap", caller, swap_id,
                           unwrap(parse_account(swap.initiator)),
                           parse_u128(swap.amount)))
    /\ UNCHANGED <<swaps_by_initiator, swaps_by_participant, oracle_verifications,
                   swap_owner, oracle_account, fee_recipient, fee_percentage,
                   swap_now>>
    /\ UNCHANGED <<escrow_vars, p2p_vars>>

get_swap(swap_id) == map_get(swaps, swap_id)

get_oracle_verification(swap_id) == map_get(oracle_verifications, swap_id)

set_fee_percentage_ok(caller, percentage) ==
    /\ caller = swap_owner
    /\ percentage <= max_fee_percentage

set_fee_percentage(caller, percentage) ==
    /\ set_fee_percentage_ok(caller, percentage)
    /\ fee_percentage' = percentage
    /\ UNCHANGED <<swaps, swaps_by_initiator, swaps_by_participant,
                   oracle_verifications, swap_owner, oracle_account, fee_recipient,
                   swap_now, swap_transfers>>
    /\ UNCHANGED <<escrow_vars, p2p_vars>>

set_fee_recipient(caller, recipient) ==
    /\ caller = swap_owner
    /\ fee_recipient' = recipient
    /\ UNCHANGED <<swaps, swaps_by_initiator, swaps_by_participant,
                   oracle_verifications, swap_owner, oracle_account, fee_percentage,
                   swap_now, swap_transfers>>
    /\ UNCHANGED <<escrow_vars, p2p_vars>>

set_oracle_account(caller, account) ==
    /\ caller = swap_owner
    /\ oracle_account' = account
    /\ UNCHANGED <<swaps, swaps_by_initiator, swaps_by_participant,
                   oracle_verifications, swap_owner, fee_recipient, fee_percentage,
                   swap_now, swap_transfers>>
    /\ UNCHANGED <<escrow_vars, p2p_vars>>

(* the host advances the block timestamp of the swap module, to one of    *)
(* the listed instants or to the time lock of a recorded swap              *)
SwapTick ==
    /\ \E t \in SwapInstants \cup {swaps[id].time_lock : id \in DOMAIN swaps} :
          ts_lt(swap_now, t) /\ swap_now' = t
    /\ UNCHANGED <<swaps, swaps_by_initiator, swaps_by_participant,
                   oracle_verifications, swap_owner, oracle_account, fee_recipient,
                   fee_percentage, swap_transfers>>
    /\ UNCHANGED <<escrow_vars, p2p_vars>>

SwapNext ==
    \/ \E c \in Initiators, id \in SwapIds, p \in Participants, h \in HashLocks,
          alg \in HashAlgorithms, d \in Durations, tc \in TargetChains,
          ta \in TargetAddresses, cp \in CounterpartyIds, v \in SwapDeposits :
          initiate_swap(c, id, p, h, alg, d, tc, ta, cp, v)
    \/ \E c \in SwapAccounts, id \in SwapIds : lock_swap(c, id)
    \/ \E c \in SwapAccounts, id \in SwapIds, x \in Secrets :
          complete_swap_with_oracle_verification(c, id, x)
    \/ \E c \in SwapAccounts, id \in SwapIds, ph \in PoseidonHashes,
          m \in BOOLEAN : submit_oracle_verification(c, id, ph, m)
    \/ \E c \in SwapAccounts, id \in SwapIds : refund_swap(c, id)
    \/ \E c \in SwapAccounts, f \in FeeArgs : set_fee_percentage(c, f)
    \/ \E c \in SwapAccounts, r \in FeeRecipients : set_fee_recipient(c, r)
    \/ \E c \in SwapAccounts, a \in OracleAccounts : set_oracle_account(c, a)
    \/ SwapTick

SwapSpec == Init /\ [][SwapNext]_vars

(* SwapSpec where block time keeps advancing and the initiator of a swap   *)
(* does call refund_swap once the call can go through                      *)
SwapFairSpec ==
    /\ SwapSpec
    /\ WF_vars(SwapTick)
    /\ \A id \in SwapIds : WF_vars(\E c \in Initiators : refund_swap(c, id))

----------------------------------------------------------------------------
(* P2PTransferContract *)

(* (amount_yocto * self.fee_percentage as u128) / 10000 *)
p2p_fee_of(amount_yocto, percentage) ==
    (amount_yocto * percentage) \div p2p_basis_points

(* a settlement that pays the whole amount to the recipient and the fee on top *)
p2p_settlement_fee_on_top(op, caller, transfer_id, recipient, amount_yocto) ==
    LET fee_yocto == p2p_fee_of(amount_yocto, p2p_fee_percentage)
    IN  (IF fee_yocto > 0
         THEN <<Transfer(op, caller, transfer_id, p2p_fee_recipient, fee_yocto)>>
         ELSE <<>>)
        \o <<Transfer(op, caller, transfer_id, recipient, amount_yocto)>>

(* a settlement that waives the fee of the first transfer the contract records *)
p2p_settlement_first_free(op, caller, transfer_id, recipient, amount_yocto) ==
    LET fee_yocto    == IF DOMAIN p2p_transfers = {} THEN 0
                        ELSE p2p_fee_of(amount_yocto, p2p_fee_percentage)
        payout_yocto == amount_yocto - fee_yocto
    IN  (IF fee_yocto > 0
         THEN <<Transfer(op, caller, transfer_id, p2p_fee_recipient, fee_yocto)>>
         ELSE <<>>)
        \o <<Transfer(op, caller, transfer_id, recipient, payout_yocto)>>

(* the Promises of a paying call: the fee if positive, then the payout *)
p2p_settlement(op, caller, transfer_id, recipient, amount_yocto) ==
    LET fee_yocto    == p2p_fee_of(amount_yocto, p2p_fee_percentage)
        payout_yocto == amount_yocto - fee_yocto
    IN  (IF fee_yocto > 0
         THEN <<Transfer(op, caller, transfer_id, p2p_fee_recipient, fee_yocto)>>
         ELSE <<>>)
        \o <<Transfer(op, caller, transfer_id, recipient, payout_yocto)>>

(* add_user_transfer *)
add_user_transfer(index, user, transfer_id) ==
    map_insert(index, user,
               Append(IF user \in DOMAIN index THEN index[user] ELSE <<>>,
                      transfer_id))

(* a send_direct record that carries the net payout as its amount *)
direct_transfer_net(sender, transfer_id, recipient, memo, attached) ==
    [ transfer_id   |-> transfer_id,
      sender        |-> sender,
      recipient     |-> recipient,
      amount        |-> to_string(attached - p2p_fee_of(attached, p2p_fee_percentage)),
      transfer_type |-> "Direct",
      status        |-> "Completed",
      commitment    |-> None,
      nullifier     |-> None,
      memo          |-> memo,
      timestamp     |-> p2p_now ]

(* the Transfer record built by send_direct *)
direct_transfer(sender, transfer_id, recipient, memo, attached) ==
    [ transfer_id   |-> transfer_id,
      sender        |-> sender,
      recipient     |-> recipient,
      amount        |-> to_string(attached),
      transfer_type |-> "Direct",
      status        |-> "Completed",
      commitment    |-> None,
      nullifier     |-> None,
      memo          |-> memo,
      timestamp     |-> p2p_now ]

(* a send_direct that does not look the transfer id up *)
send_direct_ok_any_id(transfer_id, attached) ==
    attached > 0

(* the two assertions of send_direct *)
send_direct_ok(transfer_id, attached) ==
    /\ attached > 0
    /\ is_none(map_get(p2p_transfers, transfer_id))

send_direct(caller, transfer_id, recipient, memo, attached) ==
    /\ send_direct_ok(transfer_id, attached)
    /\ p2p_transfers' = map_insert(p2p_transfers, transfer_id,
                            direct_transfer(caller, transfer_id, recipient, memo, attached))
    /\ user_transfers' = add_user_transfer(
                            add_user_transfer(user_transfers, caller, transfer_id),
                            recipient, transfer_id)
    /\ p2p_out' = p2p_out \o
           p2p_settlement("send_direct", caller, transfer_id, recipient, attached)
    /\ p2p_received' = p2p_received + attached
    /\ UNCHANGED <<shielded_pool, p2p_owner, p2p_fee_percentage, p2p_fee_recipient,
                   p2p_now>>
    /\ UNCHANGED <<escrow_vars, swap_vars>>

(* the ShieldedNote built by shield_deposit *)
new_note(note_id, commitment, attached) ==
    [ note_id    |-> note_id,
      commitment |-> commitment,
      amount     |-> to_string(attached),
      spent      |-> FALSE,
      nullifier  |-> None,
      created_at |-> p2p_now ]

(* a deposit that takes a commitment of any length *)
shield_deposit_ok_any_commitment(note_id, commitment, attached) ==
    /\ attached > 0
    /\ is_none(map_get(shielded_pool, note_id))

(* the three assertions of shield_deposit *)
shield_deposit_ok(note_id, commitment, attached) ==
    /\ attached > 0
    /\ is_none(map_get(shielded_pool, note_id))
    /\ Len(commitment) = hex_len

shield_deposit(caller, note_id, commitment, attached) ==
    /\ shield_deposit_ok(note_id, commitment, attached)
    /\ shielded_pool' = map_insert(shielded_pool, note_id,
                            new_note(note_id, commitment, attached))
    /\ p2p_received' = p2p_received + attached
    /\ UNCHANGED <<p2p_transfers, user_transfers, p2p_owner, p2p_fee_percentage,
                   p2p_fee_recipient, p2p_now, p2p_out>>
    /\ UNCHANGED <<escrow_vars, swap_vars>>

(* a spend that sets the flag and records no nullifier *)
spent_note_without_nullifier(note, nullifier) ==
    [note EXCEPT !.spent = TRUE]

(* note.spent = true; note.nullifier = Some(nullifier.clone()) *)
spent_note(note, nullifier) ==
    [note EXCEPT !.spent = TRUE, !.nullifier = Some(nullifier)]

(* only the assertions shield_transfer makes before it writes the note *)
shield_transfer_ok_before_write(transfer_id, input_note_id, nullifier, new_commitment, recipient_commitment, proof) ==
    /\ is_none(map_get(p2p_transfers, transfer_id))
    /\ Len(proof) > 0
    /\ is_some(map_get(shielded_pool, input_note_id))
    /\ ~shielded_pool[input_note_id].spent

(* the assertions of shield_transfer; those on the lengths come after the  *)
(* note is written, and their panic rolls that write back with the call    *)
shield_transfer_ok(transfer_id, input_note_id, nullifier, new_commitment, recipient_commitment, proof) ==
    /\ is_none(map_get(p2p_transfers, transfer_id))
    /\ Len(proof) > 0
    /\ is_some(map_get(shielded_pool, input_note_id))
    /\ ~shielded_pool[input_note_id].spent
    /\ Len(nullifier) = hex_len
    /\ Len(new_commitment) = hex_len
    /\ Len(recipient_commitment) = hex_len

(* a shield_transfer record that carries the commitment of the input note *)
shielded_transfer_input_commitment(transfer_id, input_note, nullifier, recipient_commitment, memo) ==
    [ transfer_id   |-> transfer_id,
      sender        |-> "shielded",
      recipient     |-> "shielded",
      amount        |-> to_string(parse_u128(input_note.amount)),
      transfer_type |-> "Shielded",
      status        |-> "Completed",
      commitment    |-> Some(input_note.commitment),
      nullifier     |-> Some(nullifier),
      memo          |-> memo,
      timestamp     |-> p2p_now ]

(* the Transfer record built by shield_transfer *)
shielded_transfer(transfer_id, input_note, nullifier, recipient_commitment, memo) ==
    [ transfer_id   |-> transfer_id,
      sender        |-> "shielded",
      recipient     |-> "shielded",
      amount        |-> to_string(parse_u128(input_note.amount)),
      transfer_type |-> "Shielded",
      status        |-> "Completed",
      commitment    |-> Some(recipient_commitment),
      nullifier     |-> Some(nullifier),
      memo          |-> memo,
      timestamp     |-> p2p_now ]

shield_transfer(caller, transfer_id, input_note_id, nullifier, new_commitment, recipient_commitment, proof, memo) ==
    /\ shield_transfer_ok(transfer_id, input_note_id, nullifier, new_commitment,
                          recipient_commitment, proof)
    /\ LET input_note == spent_note(shielded_pool[input_note_id], nullifier)
       IN  /\ shielded_pool' = map_insert(shielded_pool, input_note_id, input_note)
           /\ p2p_transfers' = map_insert(p2p_transfers, transfer_id,
                                  shielded_transfer(transfer_id, input_note, nullifier,
                                                    recipient_commitment, memo))
    /\ UNCHANGED <<user_transfers, p2p_owner, p2p_fee_percentage, p2p_fee_recipient,
                   p2p_now, p2p_out, p2p_received>>
    /\ UNCHANGED <<escrow_vars, swap_vars>>

(* a withdrawal that does not look at the spent flag *)
shield_withdraw_ok_spent_too(transfer_id, note_id) ==
    /\ is_none(map_get(p2p_transfers, transfer_id))
    /\ is_some(map_get(shielded_pool, note_id))

(* the two assertions of shield_withdraw *)
shield_withdraw_ok(transfer_id, note_id) ==
    /\ is_none(map_get(p2p_transfers, transfer_id))
    /\ is_some(map_get(shielded_pool, note_id))
    /\ ~shielded_pool[note_id].spent

(* a shield_withdraw record that hides the recipient as shield_transfer does *)
withdrawal_transfer_hidden_recipient(transfer_id, note, nullifier, recipient) ==
    LET amount_yocto == parse_u128(note.amount)
        payout_yocto == amount_yocto - p2p_fee_of(amount_yocto, p2p_fee_percentage)
    IN  [ transfer_id   |-> transfer_id,
          sender        |-> "shielded",
          recipient     |-> "shielded",
          amount        |-> to_string(payout_yocto),
          transfer_type |-> "Shielded",
          status        |-> "Completed",
          commitment    |-> None,
          nullifier     |-> Some(nullifier),
          memo          |-> "Shielded withdrawal",
          timestamp     |-> p2p_now ]

(* the Transfer record built by shield_withdraw *)
withdrawal_transfer(transfer_id, note, nullifier, recipient) ==
    LET amount_yocto == parse_u128(note.amount)
        payout_yocto == amount_yocto - p2p_fee_of(amount_yocto, p2p_fee_percentage)
    IN  [ transfer_id   |-> transfer_id,
          sender        |-> "shielded",
          recipient     |-> recipient,
          amount        |-> to_string(payout_yocto),
          transfer_type |-> "Shielded",
          status        |-> "Completed",
          commitment    |-> None,
          nullifier     |-> Some(nullifier),
          memo          |-> "Shielded withdrawal",
          timestamp     |-> p2p_now ]

shield_withdraw(caller, transfer_id, note_id, nullifier, recipient, proof) ==
    /\ shield_withdraw_ok(transfer_id, note_id)
    /\ LET note == spent_note(shielded_pool[note_id], nullifier)
       IN  /\ shielded_pool' = map_insert(shielded_pool, note_id, note)
           /\ p2p_transfers' = map_insert(p2p_transfers, transfer_id,
                                  withdrawal_transfer(transfer_id, note, nullifier,
                                                      recipient))
           /\ user_transfers' = add_user_transfer(user_transfers, recipient, transfer_id)
           /\ p2p_out' = p2p_out \o
                  p2p_settlement("shield_withdraw", caller, transfer_id, recipient,
                                 parse_u128(note.amount))
    /\ UNCHANGED <<p2p_owner, p2p_fee_percentage, p2p_fee_recipient, p2p_now,
                   p2p_received>>
    /\ UNCHANGED <<escrow_vars, swap_vars>>

get_transfer(transfer_id) == map_get(p2p_transfers, transfer_id)

get_shielded_note(note_id) == map_get(shielded_pool, note_id)

(* the scan of is_nullifier_used over the notes of the pool *)
is_nullifier_used(nullifier) ==
    \E note_id \in DOMAIN shielded_pool :
        /\ is_some(shielded_pool[note_id].nullifier)
        /\ unwrap(shielded_pool[note_id].nullifier) = nullifier

(* a P2P fee setter with the cap of the swap contract *)
p2p_set_fee_percentage_ok_swap_cap(caller, percentage) ==
    /\ caller = p2p_owner
    /\ percentage <= max_fee_percentage

(* the two assertions of P2PTransferContract::set_fee_percentage *)
p2p_set_fee_percentage_ok(caller, percentage) ==
    /\ caller = p2p_owner
    /\ percentage <= p2p_max_fee_percentage

p2p_set_fee_percentage(caller, percentage) ==
    /\ p2p_set_fee_percentage_ok(caller, percentage)
    /\ p2p_fee_percentage' = percentage
    /\ UNCHANGED <<p2p_transfers, user_transfers, shielded_pool, p2p_owner,
                   p2p_fee_recipient, p2p_now, p2p_out, p2p_received>>
    /\ UNCHANGED <<escrow_vars, swap_vars>>

(* a fee-recipient setter open to every account *)
p2p_set_fee_recipient_ok_any_caller(caller) == caller \in P2PAccounts

(* the assertion of P2PTransferContract::set_fee_recipient *)
p2p_set_fee_recipient_ok(caller) == caller = p2p_owner

p2p_set_fee_recipient(caller, recipient) ==
    /\ p2p_set_fee_recipient_ok(caller)
    /\ p2p_fee_recipient' = recipient
    /\ UNCHANGED <<p2p_transfers, user_transfers, shielded_pool, p2p_owner,
                   p2p_fee_percentage, p2p_now, p2p_out, p2p_received>>
    /\ UNCHANGED <<escrow_vars, swap_vars>>

(* the host advances the block timestamp of the P2P module *)
P2PTick ==
    /\ p2p_now < MaxP2PTime
    /\ p2p_now' = p2p_now + 1
    /\ UNCHANGED <<p2p_transfers, user_transfers, shielded_pool, p2p_owner,
                   p2p_fee_percentage, p2p_fee_recipient, p2p_out, p2p_received>>
    /\ UNCHANGED <<escrow_vars, swap_vars>>

P2PNext ==
    \/ \E c \in P2PSenders, id \in TransferIds, r \in P2PRecipients, mm \in Memos,
          v \in P2PDeposits : send_direct(c, id, r, mm, v)
    \/ \E c \in P2PSenders, n \in NoteIds, cm \in Commitments, v \in P2PDeposits :
          shield_deposit(c, n, cm, v)
    \/ \E c \in Spenders, id \in TransferIds, n \in NoteIds, nf \in Nullifiers,
          nc \in NewCommitments, rc \in RecipientCommitments, pf \in Proofs,
          mm \in Memos : shield_transfer(c, id, n, nf, nc, rc, pf, mm)
    \/ \E c \in Spenders, id \in TransferIds, n \in NoteIds, nf \in Nullifiers,
          r \in P2PRecipients, pf \in Proofs : shield_withdraw(c, id, n, nf, r, pf)
    \/ \E c \in P2PAccounts, f \in P2PFeeArgs : p2p_set_fee_percentage(c, f)
    \/ \E c \in P2PAccounts, r \in P2PFeeRecipients : p2p_set_fee_recipient(c, r)
    \/ P2PTick

P2PSpec == Init /\ [][P2PNext]_vars

----------------------------------------------------------------------------
(* The three contracts side by side.  They are separate accounts with      *)
(* disjoint storage and no call between them: a method of one leaves the   *)
(* state of the others as it is.  A run of ContractsSpec exercises one of  *)
(* them from the common initial state while the other two rest in theirs.  *)

ContractsNext ==
    \/ SwapInit /\ P2PInit /\ EscrowNext
    \/ EscrowInit /\ P2PInit /\ SwapNext
    \/ EscrowInit /\ SwapInit /\ P2PNext

ContractsSpec == Init /\ [][ContractsNext]_vars

----------------------------------------------------------------------------
(* Vocabulary of the escrow properties *)

Terminal == {"Completed", "Refunded"}

TransfersOf(escrow_id) ==
    {i \in 1..Len(transfers) : transfers[i].id = escrow_id}

RECURSIVE SumTransfers(_)
SumTransfers(n) ==
    IF n = 0 THEN 0 ELSE SumTransfers(n - 1) + transfers[n].amount

RECURSIVE SumAmounts(_)
SumAmounts(ids) ==
    IF ids = {} THEN 0
    ELSE LET id == CHOOSE x \in ids : TRUE
         IN  parse_u128(escrows[id].amount) + SumAmounts(ids \ {id})

TerminalIds == {id \in DOMAIN escrows : escrows[id].status \in Terminal}

LastTransfer == transfers[Len(transfers)]

(* C1: every escrow is paid out at most once (release_funds or             *)
(* refund_escrow, never both, never twice), so the transfers issued never  *)
(* exceed the total deposited.  (The claim's equality with the deposits of *)
(* the Completed/Refunded escrows is a consequence of this and falls with  *)
(* it.)                                                                    *)
C1_PaidOutAtMostOnce ==
    /\ \A id \in EscrowIds : Cardinality(TransfersOf(id)) <= 1
    /\ SumTransfers(Len(transfers)) <= deposited

(* C2: once an escrow is Completed or Refunded, no step changes any field  *)
(* of its record.                                                          *)
C2_TerminalImmutable ==
    [][\A id \in DOMAIN escrows :
          escrows[id].status \in Terminal => escrows'[id] = escrows[id]]_vars

(* the release-condition matrix of the specification *)
ReleaseMatrix(caller, escrow_id) ==
    /\ escrow_id \in DOMAIN escrows
    /\ LET e == escrows[escrow_id]
       IN  /\ e.status = "Active"
           /\ \/ e.arbiter = Some(caller)
              \/ /\ caller = e.beneficiary
                 /\ \/ now >= e.release_time
                    \/ /\ e.cross_chain_proof # None
                       /\ e.cross_chain_proof[1].verified

(* C3: release_funds(id) is accepted exactly when the escrow exists, is    *)
(* Active and the caller is the arbiter, or the beneficiary with the       *)
(* release time reached or a verified proof; an accepted call makes the    *)
(* escrow Completed, changes nothing else of it and issues exactly one     *)
(* transfer of the full amount to the beneficiary.                         *)
C3_ReleaseMatrix ==
    /\ [](\A c \in Accounts, id \in EscrowIds :
             release_funds_ok(c, id) <=> ReleaseMatrix(c, id))
    /\ [][\A c \in Accounts, id \in EscrowIds :
             release_funds(c, id) =>
                /\ escrows' = [escrows EXCEPT ![id].status = "Completed"]
                /\ Len(transfers') = Len(transfers) + 1
                /\ SubSeq(transfers', 1, Len(transfers)) = transfers
                /\ transfers'[Len(transfers')].receiver = escrows[id].beneficiary
                /\ to_string(transfers'[Len(transfers')].amount) = escrows[id].amount
                /\ UNCHANGED <<proof_verifications, owner, trusted_verifiers,
                               deposited>>]_vars

(* C3 witness: the beneficiary has released before the release time on a   *)
(* verified proof, and the single transfer went to the beneficiary.        *)
C3_Witness ==
    \E id \in DOMAIN escrows :
        /\ escrows[id].status = "Completed"
        /\ now < escrows[id].release_time
        /\ Len(transfers) = 1
        /\ transfers[1].op = "release_funds"
        /\ transfers[1].caller = escrows[id].beneficiary
        /\ transfers[1].receiver = escrows[id].beneficiary
        /\ transfers[1].amount = deposited

(* C4: while an escrow is Disputed, no release_funds and no refund_escrow  *)
(* call is accepted, whoever calls.                                        *)
C4_DisputeBlocks ==
    \A c \in Accounts, id \in DOMAIN escrows :
        escrows[id].status = "Disputed" =>
            ~release_funds_ok(c, id) /\ ~refund_escrow_ok(c, id)

(* C5: refund_escrow(id) is accepted only from the depositor or the        *)
(* arbiter, only at or after the release time and only without a verified  *)
(* proof; an accepted call makes the escrow Refunded and transfers the     *)
(* full amount to the depositor, whoever called.                           *)
C5_RefundGuarded ==
    /\ [](\A c \in Accounts, id \in DOMAIN escrows :
             refund_escrow_ok(c, id) =>
                /\ c = escrows[id].depositor \/ escrows[id].arbiter = Some(c)
                /\ now >= escrows[id].release_time
                /\ ~(/\ escrows[id].cross_chain_proof # None
                     /\ escrows[id].cross_chain_proof[1].verified))
    /\ [][\A c \in Accounts, id \in EscrowIds :
             refund_escrow(c, id) =>
                /\ escrows' = [escrows EXCEPT ![id].status = "Refunded"]
                /\ Len(transfers') = Len(transfers) + 1
                /\ SubSeq(transfers', 1, Len(transfers)) = transfers
                /\ transfers'[Len(transfers')].receiver = escrows[id].depositor
                /\ to_string(transfers'[Len(transfers')].amount) = escrows[id].amount
                /\ UNCHANGED <<proof_verifications, owner, trusted_verifiers,
                               deposited>>]_vars

(* C5 witness: the arbiter has refunded an escrow that carries an          *)
(* unverified proof, and the transfer went to the depositor.               *)
C5_Witness ==
    \E id \in DOMAIN escrows :
        /\ escrows[id].status = "Refunded"
        /\ escrows[id].cross_chain_proof # None
        /\ Len(transfers) = 1
        /\ transfers[1].op = "refund_escrow"
        /\ escrows[id].arbiter = Some(transfers[1].caller)
        /\ transfers[1].caller # escrows[id].depositor
        /\ transfers[1].receiver = escrows[id].depositor
        /\ transfers[1].amount = deposited

(* C6: once the proof slot of an escrow is verified, no step replaces the  *)
(* slot or makes it unverified.                                            *)
C6_VerifiedProofKept ==
    [][\A id \in DOMAIN escrows :
          proof_verified(escrows[id]) =>
             /\ escrows'[id].cross_chain_proof # None
             /\ LET p == escrows[id].cross_chain_proof[1]
                    q == escrows'[id].cross_chain_proof[1]
                IN  /\ q.verified
                    /\ q.chain_id = p.chain_id
                    /\ q.tx_hash = p.tx_hash
                    /\ q.block_number = p.block_number
                    /\ q.proof_data = p.proof_data]_vars

(* C7: verify_proof(id) is accepted only from the owner or a current       *)
(* trusted verifier and only with a proof in the slot; the owner is        *)
(* accepted whether or not it is in trusted_verifiers; an account other    *)
(* than the owner is rejected right after its removal; an accepted call    *)
(* sets verified, verified_at = now and the is_proof_verified entry of the *)
(* proof, and nothing else of the slot.                                    *)
C7_VerifyProof ==
    /\ [](\A c \in Accounts, id \in EscrowIds :
             /\ verify_proof_ok(c, id) =>
                   /\ c = owner \/ \E i \in DOMAIN trusted_verifiers :
                                       trusted_verifiers[i] = c
                   /\ id \in DOMAIN escrows
                   /\ escrows[id].cross_chain_proof # None
             /\ (/\ c = owner
                 /\ id \in DOMAIN escrows
                 /\ escrows[id].cross_chain_proof # None) => verify_proof_ok(c, id))
    /\ [][\A c \in Accounts, v \in Verifiers, id \in EscrowIds :
             (remove_trusted_verifier(c, v) /\ v # owner) =>
                ~(verify_proof_ok(v, id))']_vars
    /\ [][\A c \in Accounts, id \in EscrowIds :
             verify_proof(c, id) =>
                LET p == escrows[id].cross_chain_proof[1]
                    q == escrows'[id].cross_chain_proof[1]
                IN  /\ q = [p EXCEPT !.verified = TRUE, !.verified_at = Some(now)]
                    /\ (is_proof_verified(p.chain_id, p.tx_hash))'
                    /\ escrows' = [escrows EXCEPT ![id].cross_chain_proof = <<q>>]
                    /\ UNCHANGED <<owner, trusted_verifiers, transfers,
                                   deposited>>]_vars

(* C7 witness: with trusted_verifiers emptied (the owner removed too), a   *)
(* proof stands verified at the current block time and is indexed.         *)
C7_Witness ==
    \E id \in DOMAIN escrows :
        /\ trusted_verifiers = <<>>
        /\ now > 0
        /\ escrows[id].cross_chain_proof # None
        /\ escrows[id].cross_chain_proof[1].verified
        /\ escrows[id].cross_chain_proof[1].verified_at = Some(now)
        /\ is_proof_verified(escrows[id].cross_chain_proof[1].chain_id,
                             escrows[id].cross_chain_proof[1].tx_hash)
        /\ DOMAIN proof_verifications = {"eth:0xdef"}

(* C9: create_escrow is accepted exactly when the attached value is        *)
(* positive, the id is unused and release_time > now; an accepted call     *)
(* inserts an Active record with depositor = caller, amount = attached     *)
(* value, created_at = now, the given beneficiary, arbiter and metadata    *)
(* and no proof, issues no transfer and leaves every existing record as it *)
(* was.                                                                    *)
C9_CreateEscrow ==
    /\ [](\A id \in EscrowIds, rt \in 0..MaxTime, v \in Deposits :
             create_escrow_ok(id, rt, v) <=>
                (v >= 1 /\ id \notin DOMAIN escrows /\ now + 1 <= rt))
    /\ [][\A c \in Depositors, id \in EscrowIds, b \in Beneficiaries,
             rt \in 0..MaxTime, a \in ArbiterArgs, md \in Metadatas,
             v \in Deposits :
             create_escrow(c, id, b, rt, a, md, v) =>
                /\ DOMAIN escrows' = DOMAIN escrows \cup {id}
                /\ \A k \in DOMAIN escrows : escrows'[k] = escrows[k]
                /\ escrows'[id].status = "Active"
                /\ escrows'[id].depositor = c
                /\ parse_u128(escrows'[id].amount) = v
                /\ escrows'[id].created_at = now
                /\ escrows'[id].release_time = rt
                /\ escrows'[id].beneficiary = b
                /\ escrows'[id].arbiter = a
                /\ escrows'[id].metadata = md
                /\ escrows'[id].cross_chain_proof = None
                /\ transfers' = transfers]_vars

(* C9 witness: an escrow created at time 1 with 10 attached and an arbiter *)
(* is stored Active, without proof, and nothing has been transferred.      *)
C9_Witness ==
    \E id \in DOMAIN escrows :
        /\ escrows[id].status = "Active"
        /\ escrows[id].created_at = 1
        /\ escrows[id].amount = <<1, 0>>
        /\ deposited = 10
        /\ escrows[id].arbiter = <<"carol">>
        /\ escrows[id].cross_chain_proof = <<>>
        /\ transfers = <<>>

(* One escrow record followed through the calls that can change it: the    *)
(* pairs <<record, block time>> reachable in one step from <<escrow, t>>,   *)
(* by any caller (verify_proof by the owner, who is always authorized).     *)
EscrowSucc(escrow, t) ==
    {<<escrow, t + 1>> : x \in {u \in {t} : t < MaxTime}}
    \cup {<<[escrow EXCEPT !.cross_chain_proof = Some(new_proof(ch, tx, bn, pd))], t>> :
            <<ch, tx, bn, pd>> \in
                {q \in ChainIds \X TxHashes \X BlockNumbers \X ProofDatas :
                    submit_cross_chain_proof_asserts(escrow)}}
    \cup {<<[escrow EXCEPT !.cross_chain_proof =
                Some(verified_proof(unwrap(escrow.cross_chain_proof), t))], t>> :
            x \in {u \in {t} : is_some(escrow.cross_chain_proof)}}
    \cup {<<[escrow EXCEPT !.status = "Completed"], t>> :
            c \in {a \in Accounts : release_funds_asserts(escrow, a, t)}}
    \cup {<<[escrow EXCEPT !.status = "Refunded"], t>> :
            c \in {a \in Accounts : refund_escrow_asserts(escrow, a, t)}}
    \cup {<<[escrow EXCEPT !.status = "Disputed"], t>> :
            c \in {a \in Accounts : raise_dispute_asserts(escrow, a)}}

RECURSIVE EscrowReach(_, _)
EscrowReach(frontier, seen) ==
    IF frontier = {} THEN seen
    ELSE LET next == UNION {EscrowSucc(s[1], s[2]) : s \in frontier}
         IN  EscrowReach(next \ (seen \cup frontier), seen \cup frontier)

CanSettle(escrow, t) ==
    \E s \in EscrowReach({<<escrow, t>>}, {}) : s[1].status \in Terminal

(* C8: from every reachable state, every escrow that is not Completed or   *)
(* Refunded has a continuation of calls and clock advance that makes it    *)
(* Completed or Refunded (which pays its amount out).                      *)
C8_NeverStranded ==
    \A id \in DOMAIN escrows :
        escrows[id].status \notin Terminal => CanSettle(escrows[id], now)

----------------------------------------------------------------------------
(* Swap properties *)

SwapTransitions ==
    {<<"Initiated", "Locked">>, <<"Locked", "Completed">>,
     <<"Initiated", "Refunded">>, <<"Locked", "Refunded">>}

(* C10: the status of a swap changes only along Initiated -> Locked (by    *)
(* lock_swap), Locked -> Completed (by the completion), Initiated ->       *)
(* Refunded and Locked -> Refunded (by refund_swap); a swap is born        *)
(* Initiated and is never removed, Completed and Refunded are never left   *)
(* and Cancelled is never reached.                                         *)
C10_SwapTransitions ==
    /\ [](\A id \in DOMAIN swaps : swaps[id].status # "Cancelled")
    /\ [][/\ DOMAIN swaps \subseteq DOMAIN swaps'
          /\ \A id \in DOMAIN swaps' \ DOMAIN swaps :
                swaps'[id].status = "Initiated"
          /\ \A id \in DOMAIN swaps :
                swaps'[id].status # swaps[id].status =>
                   <<swaps[id].status, swaps'[id].status>> \in SwapTransitions
          /\ \A c \in SwapAccounts, id \in SwapIds :
                /\ lock_swap(c, id) =>
                      swaps[id].status = "Initiated" /\ swaps'[id].status = "Locked"
                /\ (\E x \in Secrets :
                       complete_swap_with_oracle_verification(c, id, x)) =>
                      swaps[id].status = "Locked" /\ swaps'[id].status = "Completed"
                /\ refund_swap(c, id) =>
                      /\ swaps[id].status \in {"Initiated", "Locked"}
                      /\ swaps'[id].status = "Refunded"]_vars

(* C10 witness: a swap has gone Initiated -> Locked -> Completed and its    *)
(* fee and payout have been issued.                                         *)
C10_Witness ==
    \E id \in DOMAIN swaps :
        /\ swaps[id].status = "Completed"
        /\ swaps[id].secret = <<"hello">>
        /\ Len(swap_transfers) = 2
        /\ swap_transfers[2].receiver = swaps[id].participant

(* C11: in every state and for every swap the secret is present exactly    *)
(* when the status is Completed (so a Refunded swap carries none), and a    *)
(* recorded secret is never cleared or changed by any later step.          *)
C11_SecretIffCompleted ==
    /\ [](\A id \in DOMAIN swaps :
             is_some(swaps[id].secret) <=> swaps[id].status = "Completed")
    /\ [][\A id \in DOMAIN swaps :
             is_some(swaps[id].secret) =>
                /\ id \in DOMAIN swaps'
                /\ swaps'[id].secret = swaps[id].secret]_vars

(* C11 witness: a Completed swap still carries its secret after its time   *)
(* lock has passed, when the initiator's refund would otherwise be due.    *)
C11_Witness ==
    \E id \in DOMAIN swaps :
        /\ swaps[id].status = "Completed"
        /\ is_some(swaps[id].secret)
        /\ ts_ge(swap_now, swaps[id].time_lock)

(* C12: every Completed swap whose hash_algorithm is SHA256 stores a       *)
(* secret whose hex SHA-256 digest equals its hash_lock; a completion call *)
(* with a secret of another digest is rejected for every caller, and a     *)
(* completion that does go through on a SHA256 swap carried a matching     *)
(* secret and found the swap Locked.                                       *)
C12_HashLockSound ==
    /\ [](\A id \in DOMAIN swaps :
             swaps[id].hash_algorithm = "SHA256" =>
                /\ swaps[id].status = "Completed" =>
                      /\ is_some(swaps[id].secret)
                      /\ hash_secret(unwrap(swaps[id].secret)) = swaps[id].hash_lock
                /\ \A x \in Secrets :
                      hash_secret(x) # swaps[id].hash_lock =>
                         ~complete_swap_ok(id, x))
    /\ [][\A c \in SwapAccounts, id \in SwapIds, x \in Secrets :
             (complete_swap_with_oracle_verification(c, id, x)
                /\ swaps[id].hash_algorithm = "SHA256") =>
                /\ hash_secret(x) = swaps[id].hash_lock
                /\ swaps[id].status = "Locked"
                /\ swaps'[id].secret = Some(x)]_vars

(* C12 witness: a SHA256 swap was completed with the matching secret by an *)
(* account that is neither its participant nor its initiator.              *)
C12_Witness ==
    \E id \in DOMAIN swaps, i \in DOMAIN swap_transfers :
        /\ swaps[id].hash_algorithm = "SHA256"
        /\ swaps[id].status = "Completed"
        /\ hash_secret(unwrap(swaps[id].secret)) = swaps[id].hash_lock
        /\ swap_transfers[i].id = id
        /\ swap_transfers[i].caller \notin {swaps[id].participant, swaps[id].initiator}

(* C13: a Poseidon swap is completed only when, at the completion call,    *)
(* the oracle entry of its id exists with verified = true; the entry holds *)
(* the secret_matches of the latest submit_oracle_verification for the id  *)
(* (no other step writes it), and with no entry or an entry overwritten    *)
(* with false every completion call is rejected.                           *)
C13_PoseidonNeedsOracle ==
    /\ [](\A id \in DOMAIN swaps, x \in Secrets :
             (/\ swaps[id].hash_algorithm = "Poseidon"
              /\ \/ is_none(get_oracle_verification(id))
                 \/ ~unwrap(get_oracle_verification(id)).verified) =>
                ~complete_swap_ok(id, x))
    /\ [][/\ \A c \in SwapAccounts, id \in SwapIds, x \in Secrets :
                (complete_swap_with_oracle_verification(c, id, x)
                   /\ swaps[id].hash_algorithm = "Poseidon") =>
                   /\ is_some(get_oracle_verification(id))
                   /\ unwrap(get_oracle_verification(id)).verified
          /\ \A c \in SwapAccounts, id \in SwapIds, ph \in PoseidonHashes,
                m \in BOOLEAN :
                submit_oracle_verification(c, id, ph, m) =>
                   unwrap((get_oracle_verification(id))').verified = m
          /\ oracle_verifications' # oracle_verifications =>
                \E c \in SwapAccounts, id \in SwapIds, ph \in PoseidonHashes,
                   m \in BOOLEAN : submit_oracle_verification(c, id, ph, m)
          /\ \A id \in DOMAIN swaps :
                (swaps[id].hash_algorithm = "Poseidon"
                   /\ swaps[id].status # "Completed"
                   /\ swaps'[id].status = "Completed") =>
                   /\ is_some(get_oracle_verification(id))
                   /\ unwrap(get_oracle_verification(id)).verified]_vars

(* C13 witness: the oracle's latest entry for a Locked Poseidon swap says  *)
(* secret_matches = false while the time lock is still ahead: the swap is  *)
(* Locked and no completion goes through.                                  *)
C13_Witness ==
    \E id \in DOMAIN swaps :
        /\ swaps[id].hash_algorithm = "Poseidon"
        /\ swaps[id].status = "Locked"
        /\ ts_lt(swap_now, swaps[id].time_lock)
        /\ is_some(get_oracle_verification(id))
        /\ ~unwrap(get_oracle_verification(id)).verified
        /\ \A x \in Secrets : ~complete_swap_ok(id, x)

(* the transfers a method issued for a swap *)
SwapTransfersOf(op, swap_id) ==
    {i \in 1..Len(swap_transfers) :
        swap_transfers[i].op = op /\ swap_transfers[i].id = swap_id}

(* C14: lock_swap and the completion go through only at now < time_lock   *)
(* and refund_swap only at now >= time_lock, so no state enables both a    *)
(* completion and a refund of one swap; at now = time_lock the completion  *)
(* is rejected and the initiator's refund of an open swap is accepted; the *)
(* clock never goes back and time_lock never changes, so once a refund is  *)
(* enabled no completion is enabled afterwards; and no swap has both a     *)
(* payout to the participant and a refund to the initiator.                *)
C14_TimeExclusive ==
    /\ [](\A id \in DOMAIN swaps, c \in SwapAccounts, x \in Secrets :
             /\ lock_swap_ok(c, id) => ts_lt(swap_now, swaps[id].time_lock)
             /\ complete_swap_ok(id, x) => ts_lt(swap_now, swaps[id].time_lock)
             /\ refund_swap_ok(c, id) => ts_ge(swap_now, swaps[id].time_lock)
             /\ ~(complete_swap_ok(id, x) /\ refund_swap_ok(c, id))
             /\ swap_now = swaps[id].time_lock =>
                   /\ ~complete_swap_ok(id, x)
                   /\ swaps[id].status \in {"Initiated", "Locked"} =>
                         refund_swap_ok(swaps[id].initiator, id)
             /\ SwapTransfersOf("complete_swap_with_oracle_verification", id) = {}
                   \/ SwapTransfersOf("refund_swap", id) = {})
    /\ [][/\ ts_ge(swap_now', swap_now)
          /\ \A id \in DOMAIN swaps :
                /\ swaps'[id].time_lock = swaps[id].time_lock
                /\ (ts_ge(swap_now, swaps[id].time_lock)
                       \/ \E c \in SwapAccounts : refund_swap_ok(c, id)) =>
                      \A x \in Secrets : ~(complete_swap_ok(id, x))']_vars

(* C14 witness: the clock stands exactly at the time lock of a Locked      *)
(* SHA256 swap: the initiator's refund is enabled and the completion with  *)
(* the matching secret is rejected.                                        *)
C14_Witness ==
    \E id \in DOMAIN swaps :
        /\ swaps[id].status = "Locked"
        /\ swaps[id].hash_algorithm = "SHA256"
        /\ swap_now = swaps[id].time_lock
        /\ refund_swap_ok(swaps[id].initiator, id)
        /\ hash_secret("hello") = swaps[id].hash_lock
        /\ ~complete_swap_ok(id, "hello")

(* floor(amount * percentage / 10000), by its defining inequalities *)
FloorFee(amount, percentage) ==
    CHOOSE f \in 0..amount :
        /\ f * 10000 <= amount * percentage
        /\ amount * percentage < (f + 1) * 10000

(* C15: a successful completion settles with the fee_percentage in force   *)
(* at the call: fee = floor(amount * fee_percentage / 10000) and payout =  *)
(* amount - fee, so fee + payout = amount and fee <= amount / 10; it       *)
(* issues a transfer of the fee to fee_recipient exactly when fee > 0,     *)
(* then one transfer of the payout to the swap's participant, whoever the  *)
(* caller is, and nothing else.                                            *)
C15_Settlement ==
    /\ [](fee_percentage <= 1000)
    /\ [][\A c \in SwapAccounts, id \in SwapIds, x \in Secrets :
             complete_swap_with_oracle_verification(c, id, x) =>
                LET amount == parse_u128(swaps[id].amount)
                    fee    == FloorFee(amount, fee_percentage)
                    payout == amount - fee
                    issued == SubSeq(swap_transfers', Len(swap_transfers) + 1,
                                     Len(swap_transfers'))
                IN  /\ fee + payout = amount
                    /\ fee * 10 <= amount
                    /\ payout > 0
                    /\ SubSeq(swap_transfers', 1, Len(swap_transfers)) = swap_transfers
                    /\ Len(issued) = IF fee > 0 THEN 2 ELSE 1
                    /\ fee > 0 =>
                          /\ issued[1].receiver = fee_recipient
                          /\ issued[1].amount = fee
                    /\ issued[Len(issued)].receiver = swaps[id].participant
                    /\ issued[Len(issued)].amount = payout
                    /\ \A i \in DOMAIN issued :
                          issued[i].id = id /\ issued[i].caller = c]_vars

(* C15 witness: a swap of 10000 was completed at 30 basis points by its    *)
(* initiator: 30 went to the fee recipient and 9970 to the participant.    *)
C15_Witness ==
    \E id \in DOMAIN swaps :
        /\ swaps[id].status = "Completed"
        /\ swaps[id].amount = to_string(10000)
        /\ Len(swap_transfers) = 2
        /\ swap_transfers[1].amount = 30
        /\ swap_transfers[1].receiver \in FeeRecipients
        /\ swap_transfers[2].amount = 9970
        /\ swap_transfers[2].receiver = swaps[id].participant
        /\ swap_transfers[2].caller = swaps[id].initiator

(* C16: refund_swap goes through only for the swap's initiator, on a swap  *)
(* that is neither Completed nor Refunded, at now >= time_lock; it sets    *)
(* the status to Refunded, changes no other field, and issues exactly one  *)
(* transfer, of the whole recorded amount, to the initiator; after it no   *)
(* refund_swap of the same swap goes through, so a swap is refunded at     *)
(* most once.                                                              *)
C16_RefundSwap ==
    /\ [](\A id \in DOMAIN swaps :
             /\ \A c \in SwapAccounts :
                   refund_swap_ok(c, id) =>
                      /\ c = swaps[id].initiator
                      /\ swaps[id].status \in {"Initiated", "Locked"}
                      /\ ts_ge(swap_now, swaps[id].time_lock)
             /\ Cardinality(SwapTransfersOf("refund_swap", id)) <= 1
             /\ swaps[id].status = "Refunded" <=>
                   SwapTransfersOf("refund_swap", id) # {})
    /\ [][\A c \in SwapAccounts, id \in SwapIds :
             refund_swap(c, id) =>
                /\ swaps' = [swaps EXCEPT ![id].status = "Refunded"]
                /\ swap_transfers' =
                      Append(swap_transfers,
                             [op       |-> "refund_swap",
                              caller   |-> swaps[id].initiator,
                              id       |-> id,
                              receiver |-> swaps[id].initiator,
                              amount   |-> parse_u128(swaps[id].amount)])
                /\ \A c2 \in SwapAccounts : ~(refund_swap_ok(c2, id))']_vars

(* C16 witness: a swap of 10000 was refunded while a fee of 10% was in     *)
(* force: the only transfer is the whole 10000 back to the initiator.      *)
C16_Witness ==
    \E id \in DOMAIN swaps :
        /\ swaps[id].status = "Refunded"
        /\ fee_percentage = 1000
        /\ Len(swap_transfers) = 1
        /\ swap_transfers[1].op = "refund_swap"
        /\ swap_transfers[1].receiver = swaps[id].initiator
        /\ swap_transfers[1].amount = 10000

(* C17: in every state, for every swap that is Initiated or Locked, a      *)
(* refund_swap call by its initiator goes through as soon as now >=        *)
(* time_lock, whatever was done before; and when block time keeps          *)
(* advancing and the initiator makes that call, every recorded swap        *)
(* eventually is Completed or Refunded.                                    *)
C17_NeverStranded ==
    /\ [](\A id \in DOMAIN swaps :
             (swaps[id].status \in {"Initiated", "Locked"}
                /\ ts_ge(swap_now, swaps[id].time_lock)) =>
                /\ refund_swap_ok(swaps[id].initiator, id)
                /\ ENABLED refund_swap(swaps[id].initiator, id))
    /\ \A id \in SwapIds :
          (id \in DOMAIN swaps) ~>
             (id \in DOMAIN swaps /\ swaps[id].status \in {"Completed", "Refunded"})

(* C17 witness: a Locked Poseidon swap that the oracle attested and nobody *)
(* completed is past its time lock, after the owner replaced the oracle    *)
(* account: the initiator's refund goes through.                           *)
C17_Witness ==
    \E id \in DOMAIN swaps :
        /\ swaps[id].status = "Locked"
        /\ swaps[id].hash_algorithm = "Poseidon"
        /\ is_some(get_oracle_verification(id))
        /\ unwrap(get_oracle_verification(id)).verified
        /\ oracle_account # "oracle"
        /\ ts_lt(swaps[id].time_lock, swap_now)
        /\ refund_swap_ok(swaps[id].initiator, id)

C19_OracleSubmission ==
    /\ [](\A c \in SwapAccounts, id \in SwapIds :
             submit_oracle_verification_ok(c, id) <=>
                /\ c = oracle_account
                /\ id \in DOMAIN swaps
                /\ swaps[id].hash_algorithm = "Poseidon")
    /\ [][/\ \A c \in SwapAccounts, id \in SwapIds, ph \in PoseidonHashes,
                m \in BOOLEAN :
                submit_oracle_verification(c, id, ph, m) =>
                   /\ DOMAIN oracle_verifications' = DOMAIN oracle_verifications \cup {id}
                   /\ oracle_verifications'[id] =
                         [swap_id |-> id, poseidon_hash |-> ph, verified |-> m,
                          verified_at |-> Some(swap_now)]
                   /\ \A k \in DOMAIN oracle_verifications \ {id} :
                         oracle_verifications'[k] = oracle_verifications[k]
                   /\ swaps' = swaps
                   /\ swap_transfers' = swap_transfers
                   /\ UNCHANGED <<swaps_by_initiator, swaps_by_participant,
                                  swap_owner, oracle_account, fee_recipient,
                                  fee_percentage, swap_now>>
          /\ \A c \in SwapAccounts, a \in OracleAccounts, o \in SwapAccounts :
                (set_oracle_account(c, a) /\ o = oracle_account /\ a # o) =>
                   \A id \in SwapIds :
                      /\ ~(submit_oracle_verification_ok(o, id))'
                      /\ \A ph \in PoseidonHashes, m \in BOOLEAN :
                            ~(ENABLED submit_oracle_verification(o, id, ph, m))']_vars

(* C19 witness: the owner replaced the oracle account and an entry was     *)
(* stored for an Initiated Poseidon swap: the swap record is as created,   *)
(* nothing was transferred, the new account is accepted and the first      *)
(* oracle account is rejected.                                             *)
C19_Witness ==
    \E id \in DOMAIN swaps :
        /\ swaps[id].hash_algorithm = "Poseidon"
        /\ swaps[id].status = "Initiated"
        /\ oracle_account = "bob"
        /\ is_some(get_oracle_verification(id))
        /\ unwrap(get_oracle_verification(id)).verified_at = Some(swap_now)
        /\ swap_transfers = <<>>
        /\ submit_oracle_verification_ok("bob", id)
        /\ ~submit_oracle_verification_ok("oracle", id)

(* C20: initiate_swap goes through exactly when the attached value is     *)
(* positive, the swap id is unused, 3600 <= time_lock_duration <= 86400    *)
(* and hash_lock has 64 characters; the record it stores is Initiated with *)
(* initiator = caller, amount = the attached value, no secret, created_at  *)
(* = now and time_lock = created_at + time_lock_duration seconds, which is *)
(* later than created_at; the id is appended to both indices and nothing   *)
(* is transferred; and only an accepted initiate_swap ever changes the set *)
(* of swaps or an index.                                                   *)
C20_InitiateSwap ==
    /\ [](/\ \A id \in SwapIds, h \in HashLocks, d \in Durations,
                v \in SwapDeposits :
                initiate_swap_ok(id, h, d, v) <=>
                   /\ v > 0
                   /\ id \notin DOMAIN swaps
                   /\ 3600 <= d /\ d <= 86400
                   /\ Len(h) = 64
          /\ \A id \in DOMAIN swaps :
                /\ ts_lt(swaps[id].created_at, swaps[id].time_lock)
                /\ parse_u128(swaps[id].amount) > 0
                /\ Len(swaps[id].hash_lock) = 64)
    /\ [][/\ \A c \in Initiators, id \in SwapIds, p \in Participants,
                h \in HashLocks, alg \in HashAlgorithms, d \in Durations,
                tc \in TargetChains, ta \in TargetAddresses,
                cp \in CounterpartyIds, v \in SwapDeposits :
                initiate_swap(c, id, p, h, alg, d, tc, ta, cp, v) =>
                   /\ DOMAIN swaps' = DOMAIN swaps \cup {id}
                   /\ \A k \in DOMAIN swaps : swaps'[k] = swaps[k]
                   /\ swaps'[id].status = "Initiated"
                   /\ swaps'[id].initiator = c
                   /\ swaps'[id].participant = p
                   /\ parse_u128(swaps'[id].amount) = v
                   /\ swaps'[id].secret = None
                   /\ swaps'[id].hash_lock = h
                   /\ swaps'[id].created_at = swap_now
                   /\ swaps'[id].time_lock.s = swap_now.s + d
                   /\ swaps'[id].time_lock.ns = swap_now.ns
                   /\ id \in {swaps_by_initiator'[c][i] :
                                 i \in DOMAIN swaps_by_initiator'[c]}
                   /\ id \in {swaps_by_participant'[p][i] :
                                 i \in DOMAIN swaps_by_participant'[p]}
                   /\ swap_transfers' = swap_transfers
          /\ (\/ DOMAIN swaps' # DOMAIN swaps
              \/ swaps_by_initiator' # swaps_by_initiator
              \/ swaps_by_participant' # swaps_by_participant) =>
                \E id \in SwapIds, h \in HashLocks, d \in Durations,
                   v \in SwapDeposits :
                   /\ v > 0 /\ id \notin DOMAIN swaps
                   /\ 3600 <= d /\ d <= 86400 /\ Len(h) = 64
                   /\ id \in DOMAIN swaps'
                   /\ swaps'[id].hash_lock = h
                   /\ parse_u128(swaps'[id].amount) = v
                   /\ swaps'[id].time_lock.s = swap_now.s + d]_vars

(* C20 witness: a swap of 33 was initiated at a later block with the       *)
(* longest duration: it is Initiated without a secret, its time lock is    *)
(* 86400 seconds after created_at, and both indices list it.               *)
C20_Witness ==
    \E id \in DOMAIN swaps :
        /\ swaps[id].status = "Initiated"
        /\ swaps[id].secret = None
        /\ swaps[id].amount = to_string(33)
        /\ swaps[id].created_at.s > 0
        /\ swaps[id].created_at = swap_now
        /\ swaps[id].time_lock.s = swaps[id].created_at.s + 86400
        /\ swaps_by_initiator[swaps[id].initiator] = <<id>>
        /\ swaps_by_participant[swaps[id].participant] = <<id>>

----------------------------------------------------------------------------
(* Properties of the administration and of the P2P contract *)

(* C21: in every state the swap contract's fee_percentage is at most 1000  *)
(* and the P2P contract's is at most 500; set_fee_percentage goes through  *)
(* exactly for the owner with a value within the cap, and fee_percentage   *)
(* changes in no other way.                                                *)
C21_FeeCaps ==
    /\ [](/\ fee_percentage <= 1000
          /\ p2p_fee_percentage <= 500
          /\ \A c \in SwapAccounts, f \in FeeArgs :
                set_fee_percentage_ok(c, f) <=> (c = swap_owner /\ f <= 1000)
          /\ \A c \in P2PAccounts, f \in P2PFeeArgs :
                p2p_set_fee_percentage_ok(c, f) <=> (c = p2p_owner /\ f <= 500))
    /\ [][/\ fee_percentage' # fee_percentage =>
                \E c \in SwapAccounts, f \in FeeArgs :
                   /\ c = swap_owner /\ f <= 1000
                   /\ set_fee_percentage(c, f)
          /\ p2p_fee_percentage' # p2p_fee_percentage =>
                \E c \in P2PAccounts, f \in P2PFeeArgs :
                   /\ c = p2p_owner /\ f <= 500
                   /\ p2p_set_fee_percentage(c, f)]_vars

(* C21 witness: the P2P fee stands at its cap of 500 after a direct        *)
(* transfer was settled; 501 is refused to the owner and every value to    *)
(* the others.                                                             *)
C21_Witness ==
    /\ p2p_fee_percentage = 500
    /\ p2p_transfers # <<>>
    /\ ~p2p_set_fee_percentage_ok(p2p_owner, 501)
    /\ \A c \in P2PAccounts \ {p2p_owner}, f \in P2PFeeArgs :
          ~p2p_set_fee_percentage_ok(c, f)

(* C22: in each contract the owner is the account given at initialization *)
(* in every state and no step changes it; add_trusted_verifier,            *)
(* remove_trusted_verifier, set_fee_percentage, set_fee_recipient and      *)
(* set_oracle_account are rejected for every caller other than the owner,  *)
(* and the list of verifiers, the fees, the fee recipients and the oracle  *)
(* account change only by these calls made by the owner.                   *)
C22_OwnerOnly ==
    /\ [](/\ owner = "owner" /\ swap_owner = "owner" /\ p2p_owner = "owner"
          /\ \A c \in Accounts \ {owner}, v \in Verifiers :
                /\ ~ENABLED add_trusted_verifier(c, v)
                /\ ~ENABLED remove_trusted_verifier(c, v)
          /\ \A c \in SwapAccounts \ {swap_owner} :
                /\ \A f \in FeeArgs : ~ENABLED set_fee_percentage(c, f)
                /\ \A r \in FeeRecipients : ~ENABLED set_fee_recipient(c, r)
                /\ \A a \in OracleAccounts : ~ENABLED set_oracle_account(c, a)
          /\ \A c \in P2PAccounts \ {p2p_owner} :
                /\ \A f \in P2PFeeArgs : ~ENABLED p2p_set_fee_percentage(c, f)
                /\ \A r \in P2PFeeRecipients : ~ENABLED p2p_set_fee_recipient(c, r))
    /\ [][/\ owner' = owner /\ swap_owner' = swap_owner /\ p2p_owner' = p2p_owner
          /\ trusted_verifiers' # trusted_verifiers =>
                \E v \in Verifiers : \/ add_trusted_verifier(owner, v)
                                      \/ remove_trusted_verifier(owner, v)
          /\ fee_percentage' # fee_percentage =>
                \E f \in FeeArgs : set_fee_percentage(swap_owner, f)
          /\ fee_recipient' # fee_recipient =>
                \E r \in FeeRecipients : set_fee_recipient(swap_owner, r)
          /\ oracle_account' # oracle_account =>
                \E a \in OracleAccounts : set_oracle_account(swap_owner, a)
          /\ p2p_fee_percentage' # p2p_fee_percentage =>
                \E f \in P2PFeeArgs : p2p_set_fee_percentage(p2p_owner, f)
          /\ p2p_fee_recipient' # p2p_fee_recipient =>
                \E r \in P2PFeeRecipients : p2p_set_fee_recipient(p2p_owner, r)]_vars

(* C22 witness: the owner has replaced the fee recipient of the P2P        *)
(* contract, which holds a note; the owner is as initialized and the new   *)
(* fee recipient itself cannot change the setting.                         *)
C22_Witness ==
    /\ p2p_owner = "owner"
    /\ p2p_fee_recipient = "alice"
    /\ shielded_pool # <<>>
    /\ ~ENABLED p2p_set_fee_recipient("alice", "owner")
    /\ ENABLED p2p_set_fee_recipient("owner", "owner")

(* the Promises a step of the P2P contract issues *)
P2PIssued == SubSeq(p2p_out', Len(p2p_out) + 1, Len(p2p_out'))

(* C23: send_direct goes through exactly when the attached value a is      *)
(* positive and the transfer id is unused; it records under the id a       *)
(* Transfer of type Direct, status Completed, sender = caller, the given   *)
(* recipient and amount = a (the gross value), appends the id to the       *)
(* index of the sender and of the recipient, touches no note and no other  *)
(* record, and issues fee = floor(a * fee_percentage / 10000) to           *)
(* fee_recipient exactly when fee > 0, then a - fee to the recipient, so   *)
(* the issued total is a.                                                  *)
C23_SendDirect ==
    /\ [](\A id \in TransferIds, v \in P2PDeposits :
             send_direct_ok(id, v) <=> (v > 0 /\ id \notin DOMAIN p2p_transfers))
    /\ [][\A c \in P2PSenders, id \in TransferIds, r \in P2PRecipients,
             mm \in Memos, v \in P2PDeposits :
             send_direct(c, id, r, mm, v) =>
                LET fee == FloorFee(v, p2p_fee_percentage)
                    old(u) == IF u \in DOMAIN user_transfers
                              THEN user_transfers[u] ELSE <<>>
                IN  /\ DOMAIN p2p_transfers' = DOMAIN p2p_transfers \cup {id}
                    /\ \A k \in DOMAIN p2p_transfers :
                          p2p_transfers'[k] = p2p_transfers[k]
                    /\ p2p_transfers'[id].transfer_type = "Direct"
                    /\ p2p_transfers'[id].status = "Completed"
                    /\ p2p_transfers'[id].sender = c
                    /\ p2p_transfers'[id].recipient = r
                    /\ parse_u128(p2p_transfers'[id].amount) = v
                    /\ user_transfers'[c] = Append(old(c), id)
                    /\ user_transfers'[r] = Append(old(r), id)
                    /\ shielded_pool' = shielded_pool
                    /\ SubSeq(p2p_out', 1, Len(p2p_out)) = p2p_out
                    /\ Len(P2PIssued) = IF fee > 0 THEN 2 ELSE 1
                    /\ fee > 0 =>
                          /\ P2PIssued[1].receiver = p2p_fee_recipient
                          /\ P2PIssued[1].amount = fee
                    /\ P2PIssued[Len(P2PIssued)].receiver = r
                    /\ P2PIssued[Len(P2PIssued)].amount = v - fee]_vars

(* C23 witness: alice sent 1999 to bob at 10 basis points: the record      *)
(* carries 1999, both indices list the id, 1 went to the fee recipient     *)
(* and 1998 to bob.                                                        *)
C23_Witness ==
    \E id \in DOMAIN p2p_transfers :
        /\ p2p_transfers[id].transfer_type = "Direct"
        /\ p2p_transfers[id].amount = to_string(1999)
        /\ user_transfers["alice"] = <<id>>
        /\ user_transfers["bob"] = <<id>>
        /\ Len(p2p_out) = 2
        /\ p2p_out[1].amount = 1 /\ p2p_out[1].receiver = "owner"
        /\ p2p_out[2].amount = 1998 /\ p2p_out[2].receiver = "bob"

(* C24: shield_deposit goes through exactly when the attached value is    *)
(* positive, the note id is unused and the commitment has 64 characters;   *)
(* it inserts under the note id a note with spent = false, no nullifier,   *)
(* the commitment and amount = the whole attached value, leaves every      *)
(* other note, the Transfer records and the indices as they are and        *)
(* issues no Promise; the set of note ids changes by no other step.        *)
C24_ShieldDeposit ==
    /\ [](\A n \in NoteIds, cm \in Commitments, v \in P2PDeposits :
             shield_deposit_ok(n, cm, v) <=>
                (v > 0 /\ n \notin DOMAIN shielded_pool /\ Len(cm) = 64))
    /\ [][/\ \A c \in P2PSenders, n \in NoteIds, cm \in Commitments,
                v \in P2PDeposits :
                shield_deposit(c, n, cm, v) =>
                   /\ DOMAIN shielded_pool' = DOMAIN shielded_pool \cup {n}
                   /\ \A k \in DOMAIN shielded_pool :
                         shielded_pool'[k] = shielded_pool[k]
                   /\ shielded_pool'[n].note_id = n
                   /\ shielded_pool'[n].commitment = cm
                   /\ shielded_pool'[n].spent = FALSE
                   /\ shielded_pool'[n].nullifier = None
                   /\ parse_u128(shielded_pool'[n].amount) = v
                   /\ p2p_transfers' = p2p_transfers
                   /\ user_transfers' = user_transfers
                   /\ p2p_out' = p2p_out
          /\ DOMAIN shielded_pool' # DOMAIN shielded_pool =>
                \E c \in P2PSenders, n \in NoteIds, cm \in Commitments,
                   v \in P2PDeposits :
                   /\ v > 0 /\ n \notin DOMAIN shielded_pool /\ Len(cm) = 64
                   /\ shield_deposit(c, n, cm, v)]_vars

(* C24 witness: 1999 was deposited while a fee of 500 basis points was in  *)
(* force: the note is unspent with no nullifier and holds the whole 1999,  *)
(* no Transfer was recorded and nothing was paid out.                      *)
C24_Witness ==
    \E n \in DOMAIN shielded_pool :
        /\ p2p_fee_percentage = 500
        /\ shielded_pool[n].amount = to_string(1999)
        /\ ~shielded_pool[n].spent
        /\ shielded_pool[n].nullifier = None
        /\ p2p_received = 1999
        /\ p2p_transfers = <<>>
        /\ p2p_out = <<>>

(* C25: in every state and for every note, spent holds exactly when the    *)
(* nullifier is set; a spent note stays in the pool, stays spent and keeps *)
(* its nullifier in every later step.                                      *)
C25_SpentIffNullifier ==
    /\ [](\A n \in DOMAIN shielded_pool :
             shielded_pool[n].spent <=> is_some(shielded_pool[n].nullifier))
    /\ [][\A n \in DOMAIN shielded_pool :
             shielded_pool[n].spent =>
                /\ n \in DOMAIN shielded_pool'
                /\ shielded_pool'[n].spent
                /\ shielded_pool'[n].nullifier = shielded_pool[n].nullifier]_vars

(* C25 witness: one note was spent and carries its nullifier while another *)
(* note of the pool is unspent and carries none.                           *)
C25_Witness ==
    \E n \in DOMAIN shielded_pool, m \in DOMAIN shielded_pool :
        /\ shielded_pool[n].spent
        /\ is_some(shielded_pool[n].nullifier)
        /\ ~shielded_pool[m].spent
        /\ shielded_pool[m].nullifier = None

SpentNotes == {n \in DOMAIN shielded_pool : shielded_pool[n].spent}

ShieldedTransfers ==
    {id \in DOMAIN p2p_transfers : p2p_transfers[id].transfer_type = "Shielded"}

(* C26: a spent note is refused by shield_withdraw and by shield_transfer  *)
(* whatever the transfer id, nullifier, recipient, commitments and proof;  *)
(* a shielded operation that goes through finds its note unspent and       *)
(* leaves it spent (every such call writes a record or a note), so each    *)
(* note is consumed by at most one of them: there                          *)
(* are as many Shielded records as spent notes, and at most as many        *)
(* withdrawal payouts.                                                     *)
C26_NoDoubleSpend ==
    /\ [](/\ \A n \in SpentNotes, id \in TransferIds :
                /\ ~shield_withdraw_ok(id, n)
                /\ \A nf \in Nullifiers, nc \in NewCommitments,
                      rc \in RecipientCommitments, pf \in Proofs :
                      ~shield_transfer_ok(id, n, nf, nc, rc, pf)
          /\ Cardinality(ShieldedTransfers) = Cardinality(SpentNotes)
          /\ Cardinality({i \in DOMAIN p2p_out :
                             /\ p2p_out[i].op = "shield_withdraw"
                             /\ p2p_out[i].receiver \in P2PRecipients})
                <= Cardinality(SpentNotes))
    /\ [][(p2p_transfers' # p2p_transfers \/ shielded_pool' # shielded_pool) =>
             \A c \in Spenders, id \in TransferIds, n \in NoteIds, nf \in Nullifiers :
                (\/ \E r \in P2PRecipients, pf \in Proofs :
                       shield_withdraw(c, id, n, nf, r, pf)
                 \/ \E nc \in NewCommitments, rc \in RecipientCommitments,
                       pf \in Proofs, mm \in Memos :
                       shield_transfer(c, id, n, nf, nc, rc, pf, mm)) =>
                   /\ ~shielded_pool[n].spent
                   /\ shielded_pool'[n].spent
                   /\ SpentNotes' = SpentNotes \cup {n}]_vars

(* C26 witness: a note was withdrawn; a fresh transfer id is at hand and   *)
(* yet neither a withdrawal nor a shielded transfer of that note goes      *)
(* through.                                                                *)
C26_Witness ==
    \E n \in SpentNotes, id \in TransferIds :
        /\ id \notin DOMAIN p2p_transfers
        /\ \E i \in DOMAIN p2p_out : p2p_out[i].op = "shield_withdraw"
        /\ ~shield_withdraw_ok(id, n)
        /\ \A nf \in Nullifiers, nc \in NewCommitments,
              rc \in RecipientCommitments, pf \in Proofs :
              ~shield_transfer_ok(id, n, nf, nc, rc, pf)

(* C27: a shielded operation whose nullifier was already recorded by an    *)
(* earlier one is rejected, so in every state no two distinct notes carry  *)
(* the same nullifier.  The state half is what is written here: it follows *)
(* from the rejection, and a run that breaks it shows the accepted reuse.  *)
C27_NullifierUnique ==
    \A n \in DOMAIN shielded_pool, m \in DOMAIN shielded_pool :
        (n # m /\ is_some(shielded_pool[n].nullifier)
               /\ is_some(shielded_pool[m].nullifier)) =>
           shielded_pool[n].nullifier # shielded_pool[m].nullifier

C29_ShieldWithdraw ==
    /\ [](\A c \in Spenders, id \in TransferIds, n \in NoteIds, nf \in Nullifiers,
             r \in P2PRecipients, pf \in Proofs :
             ENABLED shield_withdraw(c, id, n, nf, r, pf)
                <=> /\ id \notin DOMAIN p2p_transfers
                    /\ n \in DOMAIN shielded_pool
                    /\ ~shielded_pool[n].spent)
    /\ [][(p2p_transfers' # p2p_transfers \/ shielded_pool' # shielded_pool) =>
           \A c \in Spenders, id \in TransferIds, n \in NoteIds, nf \in Nullifiers,
              r \in P2PRecipients, pf \in Proofs :
              shield_withdraw(c, id, n, nf, r, pf) =>
                 LET amount == parse_u128(shielded_pool[n].amount)
                     fee    == FloorFee(amount, p2p_fee_percentage)
                     old    == IF r \in DOMAIN user_transfers
                               THEN user_transfers[r] ELSE <<>>
                 IN  /\ shielded_pool' =
                           [shielded_pool EXCEPT ![n].spent = TRUE,
                                                 ![n].nullifier = Some(nf)]
                     /\ DOMAIN p2p_transfers' = DOMAIN p2p_transfers \cup {id}
                     /\ \A k \in DOMAIN p2p_transfers :
                           p2p_transfers'[k] = p2p_transfers[k]
                     /\ p2p_transfers'[id].sender = "shielded"
                     /\ p2p_transfers'[id].recipient = r
                     /\ p2p_transfers'[id].nullifier = Some(nf)
                     /\ user_transfers'[r] = Append(old, id)
                     /\ \A u \in DOMAIN user_transfers \ {r} :
                           user_transfers'[u] = user_transfers[u]
                     /\ SubSeq(p2p_out', 1, Len(p2p_out)) = p2p_out
                     /\ Len(P2PIssued) = IF fee > 0 THEN 2 ELSE 1
                     /\ fee > 0 =>
                           /\ P2PIssued[1].receiver = p2p_fee_recipient
                           /\ P2PIssued[1].amount = fee
                     /\ P2PIssued[Len(P2PIssued)].receiver = r
                     /\ P2PIssued[Len(P2PIssued)].amount = amount - fee
                     /\ \A i \in DOMAIN P2PIssued :
                           /\ P2PIssued[i].op = "shield_withdraw"
                           /\ P2PIssued[i].id = id]_vars

(* C29 witness: a note of 1999 was withdrawn to bob at a positive fee: the *)
(* note is spent, the record names "shielded" and bob, bob's index lists   *)
(* the id, and the fee and the payout issued for the id add up to 1999.    *)
C29_Witness ==
    \E n \in DOMAIN shielded_pool, id \in DOMAIN p2p_transfers :
        /\ shielded_pool[n].spent
        /\ parse_u128(shielded_pool[n].amount) = 1999
        /\ p2p_transfers[id].sender = "shielded"
        /\ p2p_transfers[id].recipient = "bob"
        /\ "bob" \in DOMAIN user_transfers
        /\ \E i \in DOMAIN user_transfers["bob"] : user_transfers["bob"][i] = id
        /\ Len(p2p_out) = 2
        /\ p2p_out[1].op = "shield_withdraw"
        /\ p2p_out[1].id = id
        /\ p2p_out[1].amount > 0
        /\ p2p_out[2].receiver = "bob"
        /\ p2p_out[1].amount + p2p_out[2].amount = 1999

(* C30: keys are unique in every module.  A creating call whose id already *)
(* exists is refused whatever its other arguments: create_escrow on an     *)
(* escrow id, initiate_swap on a swap id, shield_deposit on a note id, and *)
(* send_direct, shield_transfer and shield_withdraw on a transfer id.      *)
(* Every creating call that goes through writes a fresh key and leaves the *)
(* records under the existing keys of its map as they were, and a stored   *)
(* Transfer is never rewritten by any step.                                *)
C30_KeyUniqueness ==
    /\ [](
           /\ \A id \in DOMAIN escrows :
               \A c \in Depositors, b \in Beneficiaries, rt \in 0..MaxTime,
                  a \in ArbiterArgs, md \in Metadatas, v \in Deposits :
                  ~ENABLED create_escrow(c, id, b, rt, a, md, v)
           /\ \A id \in DOMAIN swaps :
               \A c \in Initiators, p \in Participants, h \in HashLocks,
                  alg \in HashAlgorithms, d \in Durations, tc \in TargetChains,
                  ta \in TargetAddresses, cp \in CounterpartyIds,
                  v \in SwapDeposits :
                  ~ENABLED initiate_swap(c, id, p, h, alg, d, tc, ta, cp, v)
           /\ \A n \in DOMAIN shielded_pool :
               \A c \in P2PSenders, cm \in Commitments, v \in P2PDeposits :
                  ~ENABLED shield_deposit(c, n, cm, v)
           /\ \A id \in DOMAIN p2p_transfers :
               /\ \A c \in P2PSenders, r \in P2PRecipients, mm \in Memos,
                     v \in P2PDeposits : ~ENABLED send_direct(c, id, r, mm, v)
               /\ \A c \in Spenders, n \in NoteIds, nf \in Nullifiers,
                     nc \in NewCommitments, rc \in RecipientCommitments,
                     pf \in Proofs, mm \in Memos :
                     ~ENABLED shield_transfer(c, id, n, nf, nc, rc, pf, mm)
               /\ \A c \in Spenders, n \in NoteIds, nf \in Nullifiers,
                     r \in P2PRecipients, pf \in Proofs :
                     ~ENABLED shield_withdraw(c, id, n, nf, r, pf))
    /\ [][
           /\ (escrows' # escrows) =>
               \A c \in Depositors, id \in EscrowIds, b \in Beneficiaries,
                  rt \in 0..MaxTime, a \in ArbiterArgs, md \in Metadatas,
                  v \in Deposits :
                  create_escrow(c, id, b, rt, a, md, v) =>
                     /\ id \notin DOMAIN escrows
                     /\ DOMAIN escrows' = DOMAIN escrows \cup {id}
                     /\ \A k \in DOMAIN escrows : escrows'[k] = escrows[k]
           /\ (swaps' # swaps) =>
               \A c \in Initiators, id \in SwapIds, p \in Participants,
                  h \in HashLocks, alg \in HashAlgorithms, d \in Durations,
                  tc \in TargetChains, ta \in TargetAddresses,
                  cp \in CounterpartyIds, v \in SwapDeposits :
                  initiate_swap(c, id, p, h, alg, d, tc, ta, cp, v) =>
                     /\ id \notin DOMAIN swaps
                     /\ DOMAIN swaps' = DOMAIN swaps \cup {id}
                     /\ \A k \in DOMAIN swaps : swaps'[k] = swaps[k]
           /\ (shielded_pool' # shielded_pool) =>
               \A c \in P2PSenders, n \in NoteIds, cm \in Commitments,
                  v \in P2PDeposits :
                  shield_deposit(c, n, cm, v) =>
                     /\ n \notin DOMAIN shielded_pool
                     /\ DOMAIN shielded_pool' = DOMAIN shielded_pool \cup {n}
                     /\ \A k \in DOMAIN shielded_pool :
                           shielded_pool'[k] = shielded_pool[k]
           /\ DOMAIN shielded_pool \subseteq DOMAIN shielded_pool'
           /\ DOMAIN p2p_transfers \subseteq DOMAIN p2p_transfers'
           /\ \A k \in DOMAIN p2p_transfers :
                 p2p_transfers'[k] = p2p_transfers[k]
           /\ Cardinality(DOMAIN p2p_transfers') <=
                 Cardinality(DOMAIN p2p_transfers) + 1]_vars

(* C30 witness: transfer id t1 and note id n1 are taken and the note is    *)
(* unspent: every creating call of the P2P module is refused on them and   *)
(* goes through on the free ids t2 and n2 with the same other arguments.   *)
C30_Witness ==
    /\ DOMAIN p2p_transfers = {"t1"}
    /\ DOMAIN shielded_pool = {"n1"}
    /\ ~shielded_pool["n1"].spent
    /\ ~send_direct_ok("t1", 5) /\ send_direct_ok("t2", 5)
    /\ ~shield_withdraw_ok("t1", "n1") /\ shield_withdraw_ok("t2", "n1")
    /\ \E nf \in Nullifiers, nc \in NewCommitments, rc \in RecipientCommitments :
          /\ ~shield_transfer_ok("t1", "n1", nf, nc, rc, "zk")
          /\ shield_transfer_ok("t2", "n1", nf, nc, rc, "zk")
    /\ \E cm \in Commitments :
          /\ ~shield_deposit_ok("n1", cm, 5)
          /\ shield_deposit_ok("n2", cm, 5)

(* Properties of the P2P settlement, of the frozen fields and of the       *)
(* proof-verification index                                                *)

(* the two amounts a direct transfer of value v settles at percentage fp   *)
DirectSettlement(v, fp) ==
    [fee |-> FloorFee(v, fp), payout |-> v - FloorFee(v, fp)]

(* the fee and the payout issued by the step, 0 when no fee was issued *)
IssuedSettlement ==
    [fee    |-> IF Len(P2PIssued) = 2 THEN P2PIssued[1].amount ELSE 0,
     payout |-> P2PIssued[Len(P2PIssued)].amount]

C33_FrozenFields ==
    [][
       /\ (escrows' # escrows) =>
             /\ \A k \in DOMAIN escrows :
                   /\ k \in DOMAIN escrows'
                   /\ escrows'[k].amount = escrows[k].amount
                   /\ escrows'[k].depositor = escrows[k].depositor
                   /\ escrows'[k].beneficiary = escrows[k].beneficiary
                   /\ escrows'[k].arbiter = escrows[k].arbiter
                   /\ escrows'[k].release_time = escrows[k].release_time
             /\ \A c \in Depositors, id \in EscrowIds, b \in Beneficiaries,
                   rt \in 0..MaxTime, a \in ArbiterArgs, md \in Metadatas,
                   v \in Deposits :
                   create_escrow(c, id, b, rt, a, md, v) =>
                      /\ parse_u128(escrows'[id].amount) = v
                      /\ escrows'[id].depositor = c
                      /\ escrows'[id].beneficiary = b
                      /\ escrows'[id].arbiter = a
                      /\ escrows'[id].release_time = rt
       /\ (swaps' # swaps) =>
             /\ \A k \in DOMAIN swaps :
                   /\ k \in DOMAIN swaps'
                   /\ swaps'[k].amount = swaps[k].amount
                   /\ swaps'[k].initiator = swaps[k].initiator
                   /\ swaps'[k].participant = swaps[k].participant
                   /\ swaps'[k].time_lock = swaps[k].time_lock
                   /\ swaps'[k].hash_lock = swaps[k].hash_lock
             /\ \A c \in Initiators, id \in SwapIds, p \in Participants,
                   h \in HashLocks, alg \in HashAlgorithms, d \in Durations,
                   tc \in TargetChains, ta \in TargetAddresses,
                   cp \in CounterpartyIds, v \in SwapDeposits :
                   initiate_swap(c, id, p, h, alg, d, tc, ta, cp, v) =>
                      /\ parse_u128(swaps'[id].amount) = v
                      /\ swaps'[id].initiator = c
                      /\ swaps'[id].participant = p
                      /\ swaps'[id].hash_lock = h
       /\ (shielded_pool' # shielded_pool) =>
             /\ \A k \in DOMAIN shielded_pool :
                   /\ k \in DOMAIN shielded_pool'
                   /\ shielded_pool'[k].amount = shielded_pool[k].amount
             /\ \A c \in P2PSenders, n \in NoteIds, cm \in Commitments,
                   v \in P2PDeposits :
                   shield_deposit(c, n, cm, v) =>
                      parse_u128(shielded_pool'[n].amount) = v
      ]_vars

(* C33 witness: a swap of 10000 was completed and less than 10000 was     *)
(* paid to the participant because of the fee; the record still carries    *)
(* 10000, alice as initiator and bob as participant.                       *)
C33_Witness ==
    \E k \in DOMAIN swaps :
        /\ swaps[k].status = "Completed"
        /\ parse_u128(swaps[k].amount) = 10000
        /\ swaps[k].initiator = "alice"
        /\ swaps[k].participant = "bob"
        /\ Len(swaps[k].hash_lock) = 64
        /\ \E i \in DOMAIN swap_transfers :
              /\ swap_transfers[i].receiver = "bob"
              /\ swap_transfers[i].amount < 10000

(* verify_proof has gone through on the escrow at some earlier time.      *)
(* verify_proof is the one writer of proof_verifications and writes a key  *)
(* each time, and EscrowIds holds one id, so an entry in the index is the  *)
(* trace of a verification of that escrow.                                 *)
EverVerified(escrow_id) ==
    /\ EscrowIds = {escrow_id}
    /\ DOMAIN proof_verifications # {}

(* C34: verification is final for refunds.  Once verify_proof has gone     *)
(* through on an escrow, no refund_escrow on it goes through in any later  *)
(* state, whatever was submitted, disputed or how far the clock advanced   *)
(* in between: every refund_escrow step is taken on an escrow that was     *)
(* never verified.                                                         *)
C34_VerificationFinal ==
    [][\A c \in Accounts, id \in EscrowIds :
          refund_escrow(c, id) => ~EverVerified(id)]_vars

(* some escrow's proof slot holds a verified proof of the transaction *)
SlotVerified(chain_id, tx_hash) ==
    \E id \in DOMAIN escrows :
        /\ is_some(escrows[id].cross_chain_proof)
        /\ unwrap(escrows[id].cross_chain_proof).verified
        /\ unwrap(escrows[id].cross_chain_proof).chain_id = chain_id
        /\ unwrap(escrows[id].cross_chain_proof).tx_hash = tx_hash

(* The first half of C35, the monotone index: is_proof_verified turns     *)
(* true only in a verify_proof step on a proof of that chain_id and        *)
(* tx_hash, and once true it stays true.                                   *)
C35_IndexMonotone ==
    [][\A ch \in ChainIds, tx \in TxHashes :
          /\ (~is_proof_verified(ch, tx) /\ is_proof_verified(ch, tx)') =>
                \E c \in Accounts, id \in EscrowIds :
                   /\ verify_proof(c, id)
                   /\ unwrap(escrows[id].cross_chain_proof).chain_id = ch
                   /\ unwrap(escrows[id].cross_chain_proof).tx_hash = tx
          /\ is_proof_verified(ch, tx) => is_proof_verified(ch, tx)']_vars

(* C35: the proof-verification index agrees with the escrow records:       *)
(* whenever is_proof_verified(chain_id, tx_hash) is true, some escrow's    *)
(* proof slot holds a verified proof with that chain_id and tx_hash.       *)
(* (The index is false at the start and monotone, C35_IndexMonotone.)      *)
C35_IndexAgreesWithSlots ==
    \A ch \in ChainIds, tx \in TxHashes :
       is_proof_verified(ch, tx) => SlotVerified(ch, tx)

(* the total of the first n outbound transfers of the P2P module *)
RECURSIVE P2POutTotal(_)
P2POutTotal(n) ==
    IF n = 0 THEN 0 ELSE p2p_out[n].amount + P2POutTotal(n - 1)

(* the total amount of a set of notes *)
RECURSIVE NoteTotal(_)
NoteTotal(ns) ==
    IF ns = {} THEN 0
    ELSE LET n == CHOOSE x \in ns : TRUE
         IN  parse_u128(shielded_pool[n].amount) + NoteTotal(ns \ {n})

(* the total amount of a set of Transfer records *)
RECURSIVE RecordTotal(_)
RecordTotal(ids) ==
    IF ids = {} THEN 0
    ELSE LET id == CHOOSE x \in ids : TRUE
         IN  parse_u128(p2p_transfers[id].amount) + RecordTotal(ids \ {id})

UnspentNotes == {n \in DOMAIN shielded_pool : ~shielded_pool[n].spent}
DirectRecords ==
    {id \in DOMAIN p2p_transfers : p2p_transfers[id].transfer_type = "Direct"}
ShieldTransferRecords ==
    {id \in DOMAIN p2p_transfers :
        /\ p2p_transfers[id].transfer_type = "Shielded"
        /\ p2p_transfers[id].recipient = "shielded"}

(* C36: value is conserved in the P2P module.  Each send_direct adds its   *)
(* attached value, each shield_withdraw the amount of the note it spends,  *)
(* and every other step nothing, to the total of the outbound transfers;   *)
(* so that total is the attached values of the direct transfers plus the   *)
(* amounts of the withdrawn notes.  In every state the value received is   *)
(* that total plus the amounts of the unspent notes plus the amounts of    *)
(* the notes spent by shield_transfer: the total paid out never exceeds    *)
(* what was received, and what a shield_transfer spent is never paid out.  *)
C36_ValueConservation ==
    /\ [](/\ p2p_received = P2POutTotal(Len(p2p_out)) + NoteTotal(UnspentNotes)
                                + RecordTotal(ShieldTransferRecords)
           /\ P2POutTotal(Len(p2p_out)) <= p2p_received
           /\ P2POutTotal(Len(p2p_out)) =
                 RecordTotal(DirectRecords)
                    + (NoteTotal(DOMAIN shielded_pool \ UnspentNotes)
                          - RecordTotal(ShieldTransferRecords)))
    /\ [][
           /\ \A c \in P2PSenders, id \in TransferIds, r \in P2PRecipients,
                 mm \in Memos, v \in P2PDeposits :
                 send_direct(c, id, r, mm, v) =>
                    P2POutTotal(Len(p2p_out))' = P2POutTotal(Len(p2p_out)) + v
           /\ \A c \in Spenders, id \in TransferIds, n \in NoteIds,
                 nf \in Nullifiers, r \in P2PRecipients, pf \in Proofs :
                 shield_withdraw(c, id, n, nf, r, pf) =>
                    P2POutTotal(Len(p2p_out))' =
                       P2POutTotal(Len(p2p_out)) + parse_u128(shielded_pool[n].amount)
           /\ (p2p_out' # p2p_out) =>
                 \/ \E c \in P2PSenders, id \in TransferIds, r \in P2PRecipients,
                       mm \in Memos, v \in P2PDeposits : send_direct(c, id, r, mm, v)
                 \/ \E c \in Spenders, id \in TransferIds, n \in NoteIds,
                       nf \in Nullifiers, r \in P2PRecipients, pf \in Proofs :
                       shield_withdraw(c, id, n, nf, r, pf)
          ]_vars

(* C36 witness: one note of 1999 was spent by shield_transfer and another  *)
(* of 1999 by shield_withdraw: 3998 were received, the 1999 of the         *)
(* withdrawn note were paid out, and no unspent note is left to pay the    *)
(* other 1999 from.                                                        *)
C36_Witness ==
    /\ DOMAIN shielded_pool = {"n1", "n2"}
    /\ UnspentNotes = {}
    /\ Cardinality(ShieldTransferRecords) = 1
    /\ RecordTotal(ShieldTransferRecords) = 1999
    /\ p2p_received = 3998
    /\ P2POutTotal(Len(p2p_out)) = 1999
    /\ \A i \in DOMAIN p2p_out : p2p_out[i].op = "shield_withdraw"

====
